---- MODULE Spec2Model ----
(***************************************************************************)
(* A model of the pltx terminal tracker: the open-project board (lists of  *)
(* cards kept in a relational store with a numeric position column), the   *)
(* list editor popup, the project list page that opens a board, and the    *)
(* application's global popup keybinds.                                    *)
(*                                                                         *)
(* One key event is one step.  A handler is modelled as an operator from   *)
(* the state before the key event (a record holding every field) to the    *)
(* SET of states it can end in: the set has more than one element only     *)
(* where the program's result is not fixed by its code (the row order of   *)
(* an SQL "ORDER BY position" among rows of equal position, an integer     *)
(* overflow that panics in a debug build and wraps in a release build).    *)
(* Indices (selected_list_index, Scrollable.focused) are zero-based as in  *)
(* the source; sequences are indexed with +1.                              *)
(***************************************************************************)
EXTENDS Integers, Sequences, FiniteSets, TLC

VARIABLES
    project_list,        \* store: rows of table project_list
    project_card,        \* store: rows of table project_card
    page,                \* Projects.page
    project_id,          \* OpenProject.project_id (None = 0)
    selected_list_index, \* OpenProject.selected_list_index
    data,                \* OpenProject.data.lists (the fetched tree)
    popup,               \* OpenProject.popup
    delete_selection,    \* OpenProject.delete_selection
    list_selections,     \* OpenProject.list_selections (focused index each)
    focus,               \* OpenProject.focus
    view,                \* app.view
    mode,                \* app.mode
    panicked,            \* the process aborted (panic) during a key event
    ev,                  \* history: the last key event and what it executed
    rt,                  \* history: progress of a move-right/move-left round trip
    state,               \* app.state of the global keybinds: mode, popup,
                         \*   screen (index into screen_list), window
    app,                 \* the App's popup, module and exit flag
    command_handler,     \* CommandHandler: command (the input), focused_pane,
                         \*   command_options
    hist,                \* history: what held before the open popup opened,
                         \*   the last opening or closing, and the key of
                         \*   the last key event of the command handler
    card_shown,          \* the OpenProjectCard render_card is called with
    due_soon_days,       \* config.modules.project_management.due_soon_days
    now,                 \* the clock, in days
    rendered,            \* what render_card derived for the card
    user_config,         \* the ConfigFile merge_config is called with
    base,                \* the base Config merge_config is called with
    config,              \* the Config merge_config returned
    editor               \* a ProjectEditor or a ListEditor driven on its own

boardvars == <<project_list, project_card, page, project_id,
               selected_list_index, data, popup, delete_selection,
               list_selections, focus, panicked, ev, rt>>

appvars == <<state, app, command_handler, hist>>

\* the inputs and results of the functions that are applied on their own
purevars == <<card_shown, due_soon_days, now, rendered, user_config, base, config>>

vars == <<boardvars, view, mode, appvars, purevars, editor>>

-----------------------------------------------------------------------------
(* Bounds of the model *)

\* highest row id the store hands out for a list (INSERT is refused beyond it)
MaxListId == 4
\* highest row id the store hands out for a card
MaxCardId == 3
\* list_selections is only ever pushed to; entries past this many are dropped
MaxSelections == 3

\* number of screens in screen_list
NumScreens == 3
\* longest command input the model types
MaxInput == 2

(* Program constants *)

\* db_new_list refuses to insert once the highest position has reached this
MaxListPosition == 5

None == 0

\* stands for usize::MAX (2^64 - 1) and for every usize a wrap-around leaves
\* near it: above every index and position of the model, which is all the
\* program's behaviour depends on
UsizeMax == 1000000

Max(S) == CHOOSE x \in S : \A y \in S : y <= x

saturating_sub(n, m) == IF n >= m THEN n - m ELSE 0

-----------------------------------------------------------------------------
(* The Database collaborator.  A table is the set of its rows.             *)

\* the id an INSERT gives a new row: one more than the highest rowid
last_row_id(rows) == IF rows = {} THEN 1 ELSE Max({r.id : r \in rows}) + 1

get_position(rows, id) == (CHOOSE r \in rows : r.id = id).position

\* UPDATE <table> SET position = position - 1 WHERE position > ?1
decrement_positions_after(rows, position) ==
    { IF r.position > position THEN [r EXCEPT !.position = @ - 1] ELSE r
      : r \in rows }

\* ... WHERE position > ?1 AND list_id = ?2
decrement_positions_after_where(rows, position, list_id) ==
    { IF r.position > position /\ r.list_id = list_id
        THEN [r EXCEPT !.position = @ - 1] ELSE r
      : r \in rows }

\* the row `id` moves one position up, the row `next_id` one position down
increment_position(rows, id, next_id) ==
    { IF r.id = id THEN [r EXCEPT !.position = @ + 1]
      ELSE IF r.id = next_id THEN [r EXCEPT !.position = @ - 1]
      ELSE r
      : r \in rows }

\* the row `id` moves one position down, the row `prev_id` one position up
decrement_position(rows, id, prev_id) ==
    { IF r.id = id THEN [r EXCEPT !.position = @ - 1]
      ELSE IF r.id = prev_id THEN [r EXCEPT !.position = @ + 1]
      ELSE r
      : r \in rows }

\* DELETE FROM project_list WHERE id = ?1; the list owns its cards
\* (the card rows reference it with ON DELETE CASCADE)
delete_list_row(s, list_id) ==
    [s EXCEPT !.project_list = {r \in @ : r.id # list_id},
              !.project_card = {c \in @ : c.list_id # list_id}]

\* The results a SELECT ... ORDER BY position can deliver: every sequence of
\* the rows in which the positions never decrease (rows of equal position
\* come in an order SQL leaves open).
RECURSIVE OrderByPosition(_)
OrderByPosition(rows) ==
    IF rows = {} THEN {<<>>}
    ELSE UNION { { <<r>> \o t : t \in OrderByPosition(rows \ {r}) }
                 : r \in {r \in rows : \A q \in rows : r.position <= q.position} }

-----------------------------------------------------------------------------
(* OpenProject: the re-fetch *)

Panic(s) == [s EXCEPT !.panicked = TRUE]

Did(s, op) == [s EXCEPT !.ops = @ \cup {op}]

\* a statement of `op` failed and `?` returned the error to the caller
Err(s, op) == [s EXCEPT !.err = op]

\* the outcomes of `op` with a store that fails one of its statements:
\* `partials` are the states in which a statement can be the failing one
Faults(s, op, partials) ==
    IF s.faulty THEN {Err(x, op) : x \in partials} ELSE {}

\* Scrollable::default() pushed onto list_selections
PushSelection(sel) == IF Len(sel) < MaxSelections THEN Append(sel, 0) ELSE sel

RECURSIVE PushSelections(_, _)
PushSelections(sel, n) ==
    IF n = 0 THEN sel ELSE PushSelections(PushSelection(sel), n - 1)

OpenProjectCard(r) ==
    [id |-> r.id, list_id |-> r.list_id, important |-> r.important,
     completed |-> r.completed, position |-> r.position]

\* the lists of the project in position order, without cards
db_get_lists(s, pid) ==
    { [i \in 1..Len(o) |-> [id |-> o[i].id, cards |-> <<>>]]
      : o \in OrderByPosition({r \in s.project_list : r.project_id = pid}) }

\* the project's cards, fetched in position order, each pushed onto its list
RECURSIVE db_get_cards(_, _, _)
db_get_cards(lists, cards, i) ==
    IF i > Len(lists) THEN {lists}
    ELSE UNION { db_get_cards([lists EXCEPT ![i].cards = o], cards, i + 1)
                 : o \in OrderByPosition({OpenProjectCard(c) :
                                 c \in {c \in cards : c.list_id = lists[i].id}}) }

db_get_project(s) ==
    IF s.project_id = None THEN {s}
    ELSE
      LET pid   == s.project_id
          rows  == {r \in s.project_list : r.project_id = pid}
          cards == {c \in s.project_card : c.project_id = pid}
          s1    == [Did(s, "db_get_project") EXCEPT !.list_selections =
                        PushSelections(@, Cardinality(rows))]
      IN  IF \E c \in cards : \A r \in rows : r.id # c.list_id
            THEN {Panic(s1)}   \* expect("failed to get project list index")
          ELSE IF rows # {} /\ s.selected_list_index >= Cardinality(rows)
            THEN {Panic(s1)}   \* project.lists[self.selected_list_index]
          ELSE (UNION { { [s1 EXCEPT !.data = t] : t \in db_get_cards(l, cards, 1) }
                        : l \in db_get_lists(s, pid) })
               \* a query that fails before or after db_get_lists
               \cup Faults(s, "db_get_project",
                           {s, [s EXCEPT !.list_selections = s1.list_selections]})

\* run F on every state of S in which the process is still alive
Then(S, F(_)) ==
    UNION { IF x.panicked \/ x.err # "" THEN {x} ELSE F(x) : x \in S }

-----------------------------------------------------------------------------
(* OpenProject: the operations on the store *)

NumLists(s) == Len(s.data)

\* self.data.lists[self.selected_list_index] exists
HasSelectedList(s) == s.selected_list_index < NumLists(s)

SelectedList(s) == s.data[s.selected_list_index + 1]

\* self.list_selections.get(self.selected_list_index) is Some
HasSelection(s) == s.selected_list_index < Len(s.list_selections)

Focused(s) == s.list_selections[s.selected_list_index + 1]

SetFocused(s, index, value) == [s EXCEPT !.list_selections[index + 1] = value]

\* a delete that moves the selection before it executes its statements
db_delete_list_selecting_first(s) ==
    IF ~HasSelectedList(s) THEN {Panic(s)}
    ELSE
      LET list_id == SelectedList(s).id
          s0 == [s EXCEPT !.selected_list_index = IF @ # 0 THEN @ - 1 ELSE @]
          s1 == delete_list_row(s0, list_id)
          s2 == [s1 EXCEPT !.project_list =
                     decrement_positions_after(
                        @, get_position(s.project_list, list_id))]
      IN  { [Did(s2, "db_delete_list") EXCEPT !.deleted = list_id] }
          \cup Faults(s0, "db_delete_list", {s0, s1})

db_delete_list(s) ==
    IF ~HasSelectedList(s) THEN {Panic(s)}
    ELSE
      LET list_id           == SelectedList(s).id
          original_position == get_position(s.project_list, list_id)
          s1 == delete_list_row(s, list_id)
          s2 == [s1 EXCEPT !.project_list =
                     decrement_positions_after(@, original_position)]
      IN  { [Did(s2, "db_delete_list") EXCEPT
                !.deleted = list_id,
                !.selected_list_index = IF @ # 0 THEN @ - 1 ELSE @] }
          \cup Faults(s, "db_delete_list", {s, s1})

db_delete_card(s) ==
    IF ~HasSelection(s) \/ ~HasSelectedList(s) THEN {Panic(s)}
    ELSE IF Focused(s) >= Len(SelectedList(s).cards) THEN {Panic(s)}
    ELSE
      LET card_index        == Focused(s)
          cards             == SelectedList(s).cards
          card              == cards[card_index + 1]
          original_position == get_position(s.project_card, card.id)
          s0 == [s EXCEPT !.project_card = {c \in @ : c.id # card.id}]
          s1 == [s0 EXCEPT !.project_card =
                     decrement_positions_after(@, original_position)]
          s2 == IF Len(cards) = 1
                  THEN SetFocused(s1, s.selected_list_index, 0)
                ELSE IF card_index = saturating_sub(Len(cards), 1)
                  THEN SetFocused(s1, s.selected_list_index, card_index - 1)
                ELSE s1
      IN  { [Did(s2, "db_delete_card") EXCEPT !.deleted = card.id] }
          \cup Faults(s, "db_delete_card", {s, s0})

\* the focused card of the selected list, if there is one
get_card(s) ==
    IF ~HasSelection(s) THEN {}
    ELSE IF Focused(s) < Len(SelectedList(s).cards)
      THEN {SelectedList(s).cards[Focused(s) + 1]}
    ELSE {}

\* a toggle that writes the store and keeps the tree it has
db_toggle_card_completed_without_refetch(s) ==
    IF get_card(s) = {} THEN {s}
    ELSE
      LET card == CHOOSE c \in get_card(s) : TRUE
      IN  { [s EXCEPT !.ops = @ \cup {"db_toggle_card_completed"},
                      !.project_card =
                         { IF c.id = card.id
                             THEN [c EXCEPT !.completed = ~card.completed]
                             ELSE c : c \in @ }] }

db_toggle_card_completed(s) ==
    IF HasSelection(s) /\ ~HasSelectedList(s) THEN {Panic(s)}
    ELSE IF get_card(s) = {} THEN {s}
    ELSE
      LET card == CHOOSE c \in get_card(s) : TRUE
      IN  db_get_project(
            [Did(s, "db_toggle_card_completed") EXCEPT !.project_card =
               { IF c.id = card.id THEN [c EXCEPT !.completed = ~card.completed]
                 ELSE c : c \in @ }])
          \cup Faults(s, "db_toggle_card_completed", {s})

db_toggle_card_important(s) ==
    IF HasSelection(s) /\ ~HasSelectedList(s) THEN {Panic(s)}
    ELSE IF get_card(s) = {} THEN {s}
    ELSE
      LET card == CHOOSE c \in get_card(s) : TRUE
      IN  db_get_project(
            [Did(s, "db_toggle_card_important") EXCEPT !.project_card =
               { IF c.id = card.id THEN [c EXCEPT !.important = ~card.important]
                 ELSE c : c \in @ }])
          \cup Faults(s, "db_toggle_card_important", {s})

increment_list_position(s) ==
    IF s.selected_list_index + 1 = NumLists(s) THEN {s}
    ELSE IF s.selected_list_index + 1 > NumLists(s) THEN {Panic(s)}
    ELSE
      LET id      == s.data[s.selected_list_index + 1].id
          next_id == s.data[s.selected_list_index + 2].id
      IN  db_get_project(
            [Did(s, "increment_list_position") EXCEPT
               !.project_list = increment_position(@, id, next_id),
               !.selected_list_index = @ + 1])
          \cup Faults(s, "increment_list_position", {s})

decrement_list_position(s) ==
    IF s.selected_list_index = 0 THEN {s}
    ELSE IF ~HasSelectedList(s) THEN {Panic(s)}
    ELSE
      LET id      == s.data[s.selected_list_index + 1].id
          prev_id == s.data[s.selected_list_index].id
      IN  db_get_project(
            [Did(s, "decrement_list_position") EXCEPT
               !.project_list = decrement_position(@, id, prev_id),
               !.selected_list_index = @ - 1])
          \cup Faults(s, "decrement_list_position", {s})

increment_card_position(s) ==
    IF ~HasSelection(s) THEN {s}
    ELSE IF ~HasSelectedList(s) THEN {Panic(s)}
    ELSE
      LET card_index == Focused(s)
          cards      == SelectedList(s).cards
      IN  IF card_index + 1 = Len(cards) THEN {s}
          ELSE IF card_index + 1 > Len(cards) THEN {Panic(s)}
          ELSE db_get_project(
                 [Did(SetFocused(s, s.selected_list_index, card_index + 1),
                      "increment_card_position") EXCEPT
                    !.project_card = increment_position(@,
                        cards[card_index + 1].id, cards[card_index + 2].id)])
               \cup Faults(s, "increment_card_position", {s})

decrement_card_position(s) ==
    IF ~HasSelection(s) THEN {s}
    ELSE IF Focused(s) = 0 THEN {s}
    ELSE IF ~HasSelectedList(s) THEN {Panic(s)}
    ELSE
      LET card_index == Focused(s)
          cards      == SelectedList(s).cards
      IN  IF card_index >= Len(cards) THEN {Panic(s)}
          ELSE db_get_project(
                 [Did(SetFocused(s, s.selected_list_index, card_index - 1),
                      "decrement_card_position") EXCEPT
                    !.project_card = decrement_position(@,
                        cards[card_index + 1].id, cards[card_index].id)])
               \cup Faults(s, "decrement_card_position", {s})

\* the position of the last card of a list, -1 when it has none
last_position(list) ==
    IF Len(list.cards) = 0 THEN -1 ELSE list.cards[Len(list.cards)].position

\* UPDATE project_card SET list_id = ?1, position = ?2
\*   WHERE list_id = ?3 AND id = ?4
update_card_list(rows, to_list, position, from_list, id) ==
    { IF c.id = id /\ c.list_id = from_list
        THEN [c EXCEPT !.list_id = to_list, !.position = position]
        ELSE c
      : c \in rows }

\* a cross-list move that leaves the source list's later cards where they are
MoveCard_without_renumbering(s, to_index, op) ==
    LET card_index == s.list_selections[s.selected_list_index + 1]
        from       == s.data[s.selected_list_index + 1]
        to         == s.data[to_index + 1]
        card       == from.cards[card_index + 1]
        position   == IF Len(to.cards) = 0 THEN 0
                      ELSE to.cards[Len(to.cards)].position + 1
    IN  [s EXCEPT !.project_card =
                     { IF c.id = card.id /\ c.list_id = from.id
                         THEN [c EXCEPT !.list_id = to.id, !.position = position]
                         ELSE c : c \in @ },
                  !.list_selections[s.selected_list_index + 1] =
                     IF card_index >= 1 THEN card_index - 1 ELSE 0,
                  !.ops = @ \cup {op},
                  !.moved = card.id]

\* the store statements of a cross-list move and the source list's cursor
MoveCard(s, to_index, op) ==
    LET card_index == Focused(s)
        from       == SelectedList(s)
        to         == s.data[to_index + 1]
        card       == from.cards[card_index + 1]
        s1 == [s EXCEPT !.project_card =
                  decrement_positions_after_where(
                     update_card_list(@, to.id, last_position(to) + 1,
                                      from.id, card.id),
                     card_index, from.id)]
    IN  [Did(SetFocused(s1, s.selected_list_index,
                        saturating_sub(card_index, 1)), op)
           EXCEPT !.moved = card.id]

\* a cross-list move with a store that fails the UPDATE of the card or the
\* renumbering of the source list
MoveFaults(s, to_index, op) ==
    LET from == SelectedList(s)
        to   == s.data[to_index + 1]
        card == from.cards[Focused(s) + 1]
    IN  Faults(s, op,
               {s, [s EXCEPT !.project_card =
                       update_card_list(@, to.id, last_position(to) + 1,
                                        from.id, card.id)]})

\* `x as usize` of an i32: a negative x wraps around to a huge value
as_usize(x) == IF x >= 0 THEN x ELSE UsizeMax

\* `left_list_last_position as usize + 1`: -1 becomes usize::MAX, and adding
\* one overflows: a panic where overflow is checked (a debug build), 0 where
\* it wraps (a release build)
MoveLeftCursor(left_list_last_position) ==
    IF left_list_last_position = -1
      THEN {-1, 0}     \* -1 stands for the panic
      ELSE {as_usize(left_list_last_position + 1)}

move_card_left(s) ==
    IF ~HasSelection(s) THEN {s}
    ELSE IF s.selected_list_index = 0 THEN {s}
    ELSE IF ~HasSelectedList(s) THEN {Panic(s)}
    ELSE IF Focused(s) >= Len(SelectedList(s).cards) THEN {Panic(s)}
    ELSE
      LET to_index == s.selected_list_index - 1
          s1       == MoveCard(s, to_index, "move_card_left")
          moved    == { IF f < 0 THEN Panic(s1)
                        ELSE [SetFocused(s1, to_index, f) EXCEPT
                                !.selected_list_index = to_index]
                        : f \in MoveLeftCursor(last_position(s.data[to_index + 1])) }
      IN  Then(moved, db_get_project)
          \cup MoveFaults(s, to_index, "move_card_left")

move_card_right(s) ==
    IF ~HasSelection(s) THEN {s}
    ELSE IF s.selected_list_index + 1 = NumLists(s) THEN {s}
    ELSE IF s.selected_list_index + 1 > NumLists(s) THEN {Panic(s)}
    ELSE IF Focused(s) >= Len(SelectedList(s).cards) THEN {Panic(s)}
    ELSE
      LET to_index == s.selected_list_index + 1
          s1       == MoveCard(s, to_index, "move_card_right")
      IN  (IF to_index >= Len(s1.list_selections) THEN {Panic(s1)}
           ELSE db_get_project(
                  [SetFocused(s1, to_index,
                              as_usize(last_position(s.data[to_index + 1]) + 1))
                     EXCEPT !.selected_list_index = to_index]))
          \cup MoveFaults(s, to_index, "move_card_right")

-----------------------------------------------------------------------------
(* The popups of the board *)

\* app.reset_display(); the old single-field form is state.mode = Navigation
reset_display(s) == [s EXCEPT !.view = "default", !.mode = "normal"]

\* ListEditor::db_new_list: the position given to the new row is the highest
\* position found in the whole table (0 when the table is empty)
HighestListPosition(rows) == Max({0} \cup {r.position : r \in rows})

db_new_list(s) ==
    LET highest_position == HighestListPosition(s.project_list)
        id               == last_row_id(s.project_list)
    IN  IF highest_position >= MaxListPosition THEN {s}
        ELSE IF id > MaxListId THEN {}      \* the bound of the model
        ELSE { [Did(s, "db_new_list") EXCEPT
                  !.inserted = id,
                  !.project_list = @ \cup
                     {[id |-> id, project_id |-> s.project_id,
                       position |-> highest_position]}] }

\* ListEditor::db_edit_list updates the title only, which the model leaves
\* out; without the data of the list it panics ("list data was not set")
db_edit_list(s) ==
    IF s.list_data # <<>> THEN {Did(s, "db_edit_list")} ELSE {Panic(s)}

\* ListEditor::key_event_handler; `closed` is its return value
ListEditor_key_event_handler(s, is_new, key) ==
    IF key = "Enter"
      THEN { [reset_display(x) EXCEPT !.closed = TRUE]
             : x \in IF is_new THEN db_new_list(s) ELSE db_edit_list(s) }
      ELSE {s}

\* CardEditor: Enter saves, Esc cancels; a new card goes after the last card
\* of its list
db_new_card(s) ==
    IF ~HasSelectedList(s) THEN {Panic(s)}
    ELSE
      LET list_id == SelectedList(s).id
          in_list == {c \in s.project_card : c.list_id = list_id}
          id      == last_row_id(s.project_card)
      IN  IF id > MaxCardId THEN {}         \* the bound of the model
          ELSE { [Did(s, "db_new_card") EXCEPT
                    !.inserted = id,
                    !.project_card = @ \cup
                       {[id |-> id, list_id |-> list_id,
                         project_id |-> s.project_id,
                         position |-> Max({-1} \cup {c.position : c \in in_list}) + 1,
                         completed |-> FALSE, important |-> FALSE]}] }

CardEditor_key_event_handler(s, is_new, key) ==
    IF key = "Enter"
      THEN { [reset_display(x) EXCEPT !.closed = TRUE]
             : x \in IF is_new THEN db_new_card(s) ELSE {s} }
    ELSE IF key = "Esc" THEN { [reset_display(s) EXCEPT !.closed = TRUE] }
    ELSE {s}

\* CardViewer: Esc closes it
CardViewer_key_event_handler(s, key) ==
    IF key = "Esc" THEN { [reset_display(s) EXCEPT !.closed = TRUE] } ELSE {s}

\* Scrollable::key_event_handler over the cards of the selected list
Scrollable_key_event_handler(s, key) ==
    LET focused == Focused(s)
        rows    == IF HasSelectedList(s) THEN Len(SelectedList(s).cards) ELSE 0
    IN  IF key = "j" /\ focused + 1 < rows
          THEN SetFocused(s, s.selected_list_index, focused + 1)
        ELSE IF key = "k" /\ focused > 0 /\ focused # UsizeMax
          THEN SetFocused(s, s.selected_list_index, focused - 1)
        ELSE s    \* (one step down from a huge value is a huge value)

\* `len - 1` on a usize: with len = 0 a panic where overflow is checked, and
\* usize::MAX where it wraps
LenMinusOne(len) == IF len > 0 THEN {len - 1} ELSE {-1, UsizeMax}  \* -1: panic

-----------------------------------------------------------------------------
(* OpenProject::key_event_handler, in its three consecutive blocks *)

AfterNewList(s) ==
    { IF i < 0 THEN Panic(s) ELSE [s EXCEPT !.selected_list_index = i]
      : i \in LenMinusOne(NumLists(s)) }

AfterNewCard(s) ==
    IF ~HasSelectedList(s) THEN {Panic(s)}
    ELSE { IF i < 0 \/ ~HasSelection(s) THEN Panic(s)
           ELSE SetFocused(s, s.selected_list_index, i)
           : i \in LenMinusOne(Len(SelectedList(s).cards)) }

\* if app.view.is_popup() { match self.popup { ... } }
PopupBlock(s, key) ==
    IF s.view # "popup" THEN {s}
    ELSE
      LET handled ==
            CASE s.popup = "NewList"  -> ListEditor_key_event_handler(s, TRUE, key)
              [] s.popup = "EditList" -> ListEditor_key_event_handler(s, FALSE, key)
              [] s.popup = "ViewCard" -> CardViewer_key_event_handler(s, key)
              [] s.popup = "NewCard"  -> CardEditor_key_event_handler(s, TRUE, key)
              [] s.popup = "EditCard" -> CardEditor_key_event_handler(s, FALSE, key)
              [] OTHER                -> {s}
          Completed(x) ==
            IF ~x.closed THEN {x}
            ELSE IF s.popup = "NewList" THEN Then(db_get_project(x), AfterNewList)
            ELSE IF s.popup = "NewCard" THEN Then(db_get_project(x), AfterNewCard)
            ELSE db_get_project(x)
      IN  Then(handled, Completed)

OpenPopup(s, which) == [s EXCEPT !.popup = which, !.view = "popup"]

\* list focus in which 'n' opens the new-list popup without a mode
ListFocusKeys_without_insert(s, key) ==
    CASE key = "H" -> decrement_list_position(s)
      [] key = "L" -> increment_list_position(s)
      [] key = "j" -> { [s EXCEPT !.focus = "Card"] }
      [] key = "d" ->
           IF s.project_id # None /\ NumLists(s) # 0
             THEN { [s EXCEPT !.delete_selection = "List", !.mode = "delete"] }
             ELSE {s}
      [] key = "e" ->
           IF NumLists(s) = 0 THEN {s}
           ELSE IF ~HasSelectedList(s) THEN {Panic(s)}
           ELSE { [OpenPopup(s, "EditList") EXCEPT !.mode = "insert"] }
      [] key = "n" -> { OpenPopup(s, "NewList") }
      [] OTHER -> {s}

\* if self.focus == Focus::List { match key_event.code { ... } }
ListFocusKeys(s, key) ==
    CASE key = "H" -> decrement_list_position(s)
      [] key = "L" -> increment_list_position(s)
      [] key = "j" -> { [s EXCEPT !.focus = "Card"] }
      [] key = "d" ->
           IF s.project_id # None /\ NumLists(s) # 0
             THEN { [s EXCEPT !.delete_selection = "List", !.mode = "delete"] }
             ELSE {s}
      [] key = "e" ->
           IF NumLists(s) = 0 THEN {s}
           ELSE IF ~HasSelectedList(s) THEN {Panic(s)}
           ELSE { [OpenPopup(s, "EditList") EXCEPT !.mode = "insert"] }
      [] key = "n" -> { [OpenPopup(s, "NewList") EXCEPT !.mode = "insert"] }
      [] OTHER -> {s}

\* the match on the key in card focus, the project having lists
CardFocusKeys(s, key) ==
    CASE key = "J" -> increment_card_position(s)
      [] key = "K" -> decrement_card_position(s)
      [] key = "H" -> move_card_left(s)
      [] key = "L" -> move_card_right(s)
      [] key = "Enter" ->
           IF NumLists(s) = 0 THEN {s}
           ELSE IF ~HasSelectedList(s) THEN {Panic(s)}
           ELSE IF Len(SelectedList(s).cards) = 0 THEN {s}
           ELSE IF ~HasSelection(s) \/ Focused(s) >= Len(SelectedList(s).cards)
             THEN {Panic([s EXCEPT !.popup = "ViewCard"])}
           ELSE {OpenPopup(s, "ViewCard")}
      [] key = "n" ->
           IF s.project_id = None \/ NumLists(s) = 0 THEN {s}
           ELSE IF ~HasSelectedList(s) THEN {Panic(s)}
           ELSE {OpenPopup(s, "NewCard")}
      [] key = "e" ->
           IF s.project_id = None THEN {s}
           ELSE IF ~HasSelectedList(s) THEN {Panic(s)}
           ELSE IF NumLists(s) = 0 \/ Len(SelectedList(s).cards) = 0 THEN {s}
           ELSE IF ~HasSelection(s) \/ Focused(s) >= Len(SelectedList(s).cards)
             THEN {Panic([s EXCEPT !.popup = "EditCard"])}
           ELSE {OpenPopup(s, "EditCard")}
      [] key = "c" -> db_toggle_card_completed(s)
      [] key = "i" -> db_toggle_card_important(s)
      [] key = "d" ->
           IF NumLists(s) = 0 THEN {s}
           ELSE IF ~HasSelectedList(s) THEN {Panic(s)}
           ELSE IF Len(SelectedList(s).cards) = 0 THEN {s}
           ELSE { [s EXCEPT !.delete_selection = "Card", !.mode = "delete"] }
      [] OTHER -> {s}

\* if app.view.is_default() && app.mode.is_normal() { ... }
NavigationBlock(s, key) ==
    IF ~(s.view = "default" /\ s.mode = "normal") THEN {s}
    ELSE IF key = "[" THEN { [s EXCEPT !.ret = TRUE] }
    ELSE
      LET s1 == IF key = "h" /\ s.selected_list_index # 0
                  THEN [s EXCEPT !.selected_list_index = @ - 1]
                ELSE IF key = "l" /\ s.selected_list_index
                                       # saturating_sub(NumLists(s), 1)
                  THEN [s EXCEPT !.selected_list_index = @ + 1]
                ELSE s
      IN  IF s1.focus = "List" THEN ListFocusKeys(s1, key)
          ELSE IF NumLists(s1) = 0
            THEN IF key = "n"
                   THEN { [OpenPopup(s1, "NewList") EXCEPT !.mode = "insert"] }
                   ELSE {s1}
          ELSE IF ~HasSelection(s1) THEN {Panic(s1)}
          ELSE IF Focused(s1) = 0 /\ key = "k"
            THEN CardFocusKeys([s1 EXCEPT !.focus = "List"], key)
          ELSE CardFocusKeys(Scrollable_key_event_handler(s1, key), key)

\* a delete block that deletes without waiting for the confirming key
DeleteBlock_without_confirmation(s, key) ==
    IF s.ret \/ s.mode # "delete" THEN {s}
    ELSE
      LET done(x) == { IF y.panicked \/ y.err # "" THEN y
                       ELSE [y EXCEPT !.mode = "normal", !.delete_selection = "None"]
                       : y \in db_get_project(x) }
      IN  IF s.delete_selection = "List" /\ NumLists(s) # 0
            THEN Then(db_delete_list(s), done)
          ELSE IF s.delete_selection = "Card"
            THEN Then(db_delete_card(s), done)
          ELSE { [s EXCEPT !.delete_selection = "None"] }

\* if app.mode.is_delete() { match key_event.code { ... } }
DeleteBlock(s, key) ==
    IF s.ret \/ s.mode # "delete" THEN {s}
    ELSE IF key = "y" THEN
      LET done(x) == { IF y.panicked \/ y.err # "" THEN y
                       ELSE [y EXCEPT !.mode = "normal", !.delete_selection = "None"]
                       : y \in db_get_project(x) }
      IN  IF s.delete_selection = "List"
            THEN IF NumLists(s) # 0 THEN Then(db_delete_list(s), done)
                 ELSE { [s EXCEPT !.delete_selection = "None"] }
          ELSE IF s.delete_selection = "Card"
            THEN Then(db_delete_card(s), done)
          ELSE { [s EXCEPT !.delete_selection = "None"] }
    ELSE IF key = "n" THEN { [s EXCEPT !.mode = "normal"] }
    ELSE {s}

\* a handler in which 'd' in normal mode enters delete mode whatever the
\* view and whether or not there is a card or a list to delete
OpenProject_key_event_handler_deleting_anything(s, key) ==
    IF key = "d" /\ s.mode = "normal"
      THEN { [s EXCEPT !.delete_selection = "Card", !.mode = "delete"] }
      ELSE Then(Then(PopupBlock(s, key), LAMBDA x : NavigationBlock(x, key)),
                LAMBDA x : DeleteBlock(x, key))

OpenProject_key_event_handler(s, key) ==
    LET Nav(x) == NavigationBlock(x, key)
        Del(x) == DeleteBlock(x, key)
    IN  Then(Then(PopupBlock(s, key), Nav), Del)

-----------------------------------------------------------------------------
(* Projects: the page that opens a board and returns from it *)

\* OpenProject::reset
reset(s) ==
    [s EXCEPT !.project_id = None, !.selected_list_index = 0,
              !.list_selections = <<>>, !.data = <<>>, !.popup = "None",
              !.delete_selection = "None"]

\* OpenProject::set_project_id
set_project_id(s, id) == [s EXCEPT !.project_id = id]

\* Projects::key_event_handler; selected_id is list_projects.selected_id
Projects_key_event_handler(s, key, selected_id) ==
    LET opened ==
          IF s.mode = "normal" /\ s.page = "ListProjects"
             /\ key \in {"Enter", "l"} /\ selected_id # None
            THEN { IF x.panicked \/ x.err # "" THEN x
                   ELSE [x EXCEPT !.page = "OpenProject"]
                   : x \in db_get_project(set_project_id(reset(s), selected_id)) }
            ELSE {s}
        Page(x) ==
          IF x.page = "OpenProject"
            THEN { IF y.ret THEN [y EXCEPT !.page = "ListProjects"] ELSE y
                   : y \in OpenProject_key_event_handler(x, key) }
            ELSE {x}
    IN  Then(opened, Page)

-----------------------------------------------------------------------------
\* nothing has been opened yet
NotOpened == [view |-> "", mode |-> "", state_mode |-> "", last |-> "",
              key |-> ""]

\* the characters the model types into the command input
InputChars == {"h", "e", "q"}

(* The application: the global keybinds, the command handler, the help    *)
(* popup.  The global keybinds act on app.state; the command handler and   *)
(* the help popup act on the App's view, mode and popup.                   *)

\* the global keybinds closing the popup and leaving the mode as it is
handle_key_event_keeping_mode(st, key) ==
    IF st.mode = "Navigation" THEN
      CASE key = "?" -> [st EXCEPT !.mode = "Popup", !.popup = "Help"]
        [] OTHER -> st
    ELSE IF key \in {"q", "Q", "Esc"} THEN [st EXCEPT !.popup = "None"]
    ELSE st

\* keybinds::handle_key_event on app.state; both blocks test the mode the
\* key event started in (event_state), so at most one of them runs.  The
\* result's `exit` tells whether app.exit() was called.
handle_key_event(st, key) ==
    IF st.mode = "Navigation" THEN
      CASE key = "?" -> [st EXCEPT !.mode = "Popup", !.popup = "Help"]
        [] key \in {"q", "Q"} -> [st EXCEPT !.exit = TRUE]
        [] key = "j" ->
             [st EXCEPT !.screen = IF @ = NumScreens - 1 THEN 0 ELSE @ + 1]
        [] key = "k" ->
             [st EXCEPT !.screen = IF @ = 0 THEN NumScreens - 1 ELSE @ - 1]
        [] key = "h" ->
             IF st.window = "Screen" THEN [st EXCEPT !.window = "Navigation"]
             ELSE st
        [] key = "l" ->
             IF st.window = "Navigation" THEN [st EXCEPT !.window = "Screen"]
             ELSE st
        [] OTHER -> st
    ELSE IF st.mode = "Popup" /\ key \in {"q", "Q", "Esc"}
      THEN [st EXCEPT !.mode = "Navigation", !.popup = "None"]
    ELSE st

\* the App with its view and mode as one record
TheApp == [view |-> view, mode |-> mode, popup |-> app.popup,
           module |-> app.module, exit |-> app.exit]

\* app.popup_display(): the popup view, in normal mode
popup_display(a) == [a EXCEPT !.view = "popup", !.mode = "normal"]

\* app.command_display(): the command view, in normal mode
command_display(a) == [a EXCEPT !.view = "command", !.mode = "normal"]

\* Help::key_event_handler
Help_key_event_handler(a, key) ==
    IF key = "?" THEN [reset_display(a) EXCEPT !.popup = "None"] ELSE a

\* command_data(): the command table, in declared order
command_data == <<"dashboard", "help", "project management", "quit">>

\* the letters of the commands the model's input can match
Letters(cmd) ==
    CASE cmd = "dashboard"          -> <<"d", "a", "s", "h", "b", "o", "a", "r", "d">>
      [] cmd = "help"               -> <<"h", "e", "l", "p">>
      [] cmd = "project management" -> <<"p", "r", "o", "j", "e", "c", "t", " ",
                                         "m", "a", "n", "a", "g", "e", "m", "e", "n", "t">>
      [] cmd = "quit"               -> <<"q", "u", "i", "t">>

\* the character count of the longest command
LongestCommand ==
    Max({Len(Letters(command_data[i])) : i \in 1..Len(command_data)})

\* the fuzzy matcher: the input's characters occur in the text, in order
RECURSIVE FuzzyMatches(_, _)
FuzzyMatches(input, text) ==
    IF input = <<>> THEN TRUE
    ELSE IF text = <<>> THEN FALSE
    ELSE IF Head(input) = Head(text) THEN FuzzyMatches(Tail(input), Tail(text))
    ELSE FuzzyMatches(input, Tail(text))

\* every order of the elements of a set (the matcher ranks by a score)
RECURSIVE Rankings(_)
Rankings(S) ==
    IF S = {} THEN {<<>>}
    ELSE UNION { { <<x>> \o r : r \in Rankings(S \ {x}) } : x \in S }

\* an update_options that never filters the table
update_options_full_table(input) == {command_data}

\* an update_options that lists a command the table does not have
update_options_stranger(input) == {<<"open">>}

\* CommandHandler::update_options: the option lists it can produce
update_options(input) ==
    IF Len(input) > LongestCommand THEN {<<>>}
    ELSE IF Len(input) = 0 THEN {command_data}
    ELSE Rankings({command_data[i] : i \in
                     {i \in 1..Len(command_data) :
                        FuzzyMatches(input, Letters(command_data[i]))}})

CommandHandler_init ==
    [command |-> <<>>, focused_pane |-> "Input", command_options |-> command_data,
     selected_option |-> 0]

\* CommandHandler::reset
CommandHandler_reset(ch) == CommandHandler_init

\* CommandHandler::parse_command: the command of the table that contains the
\* selected option; the index panics when it is out of range
parse_command(ch) ==
    IF ch.command_options = <<>> THEN "None"
    ELSE IF ch.selected_option >= Len(ch.command_options) THEN "panic"
    ELSE IF \E i \in 1..Len(command_data) :
              command_data[i] = ch.command_options[ch.selected_option + 1]
      THEN ch.command_options[ch.selected_option + 1]
    ELSE "None"

\* an execute_command that leaves the handler as it is
execute_command_without_reset(a, ch) ==
    LET cmd == IF ch.command_options = <<>> THEN "None" ELSE ch.command_options[1]
    IN  [app |-> CASE cmd = "dashboard" ->
                        [a EXCEPT !.view = "default", !.mode = "normal",
                                  !.module = "Dashboard"]
                   [] cmd = "help" ->
                        [a EXCEPT !.view = "popup", !.mode = "normal",
                                  !.popup = "Help"]
                   [] cmd = "project management" ->
                        [a EXCEPT !.view = "default", !.mode = "normal",
                                  !.module = "ProjectManagement"]
                   [] cmd = "quit" -> [a EXCEPT !.exit = TRUE]
                   [] OTHER -> a,
         ch  |-> ch]

\* CommandHandler::execute_command: the App and the handler after it
execute_command(a, ch) ==
    LET cmd == parse_command(ch)
        a2  == CASE cmd = "dashboard" ->
                      [reset_display(a) EXCEPT !.module = "Dashboard"]
                 [] cmd = "help" -> [popup_display(a) EXCEPT !.popup = "Help"]
                 [] cmd = "project management" ->
                      [reset_display(a) EXCEPT !.module = "ProjectManagement"]
                 [] cmd = "quit" -> [a EXCEPT !.exit = TRUE]
                 [] OTHER -> a
    IN  [app |-> a2,
         ch  |-> IF cmd # "None" THEN CommandHandler_reset(ch) ELSE ch]

\* TextInput::new("Command").max(50)
CommandMax == 50

\* TextInput::key_event_handler of the command input: in insert mode a
\* character key is typed while the input is below its maximum
TextInput_key_event_handler(a, input, key) ==
    IF a.mode = "insert" /\ key \notin {"Backspace", "Enter", "Esc"}
       /\ Len(input) < CommandMax
      THEN Append(input, key)
    ELSE IF a.mode = "insert" /\ key = "Backspace" /\ input # <<>>
      THEN SubSeq(input, 1, Len(input) - 1)
    ELSE input

\* CommandHandler::key_event_handler: the pairs (App, handler) it can end in
CommandHandler_key_event_handler(a, ch, key) ==
    LET typed == IF ch.focused_pane = "Input"
                   THEN { [ch EXCEPT !.command = c, !.command_options = o,
                                     !.selected_option = 0]
                          : o \in update_options(
                                    TextInput_key_event_handler(a, ch.command, key)),
                            c \in {TextInput_key_event_handler(a, ch.command, key)} }
                   ELSE {ch}
        After(c) ==
          IF a.mode = "normal" THEN
            CASE key = "Enter" -> execute_command(a, c)
              [] key = "q" -> [app |-> reset_display(a), ch |-> CommandHandler_reset(c)]
              [] key = "j" ->
                   [app |-> a,
                    ch |-> IF c.focused_pane = "Input"
                             THEN [c EXCEPT !.focused_pane = "Options"] ELSE c]
              [] key = "k" ->
                   [app |-> a,
                    ch |-> IF c.focused_pane = "Options"
                             THEN [c EXCEPT !.focused_pane = "Input"] ELSE c]
              [] OTHER -> [app |-> a, ch |-> c]
          ELSE IF a.mode = "insert" THEN
            CASE key = "Enter" -> execute_command(a, c)
              [] key = "Esc" -> [app |-> command_display(a), ch |-> c]
              [] OTHER -> [app |-> a, ch |-> c]
          ELSE [app |-> a, ch |-> c]
    IN  { After(c) : c \in typed }

(* Option<T>: <<>> is None, <<v>> is Some(v) *)

Some(v) == <<v>>
is_some_and(o, P(_)) == o # <<>> /\ P(o[1])
unwrap_or(o, default) == IF o # <<>> THEN o[1] ELSE default

-----------------------------------------------------------------------------
(* The derived statuses of a card and the status character render_card     *)
(* shows.  Dates are whole days.                                           *)

\* DateTime::is_past: the clock is after the date
is_past(d, t) == t > d

\* DateTime::is_past_days: the date is within `days` days of the clock
is_past_days(d, days, t) == t > d - days

overdue(c, t) == is_some_and(c.due_date, LAMBDA d : is_past(d, t))

\* a due_soon that does not look at overdue
due_soon_ignoring_overdue(c, days, t) ==
    is_some_and(c.due_date, LAMBDA d : is_past_days(d, days, t))

due_soon(c, days, t) ==
    is_some_and(c.due_date, LAMBDA d : is_past_days(d, days, t))
    /\ ~overdue(c, t)

in_progress(c, t) ==
    is_some_and(c.start_date, LAMBDA d : is_past(d, t)) /\ ~overdue(c, t)

\* a status character that tests overdue before completed
status_char_overdue_first(c, pm, t) ==
    IF overdue(c, t) THEN pm.overdue_char
    ELSE IF c.completed THEN pm.completed_char
    ELSE IF due_soon(c, pm.due_soon_days, t) THEN pm.due_soon_char
    ELSE IF in_progress(c, t) THEN pm.in_progress_char
    ELSE IF c.important THEN pm.important_char
    ELSE pm.default_char

\* render_card: let status_char = if card.completed { ... } else if ...
status_char(c, pm, t) ==
    IF c.completed THEN pm.completed_char
    ELSE IF overdue(c, t) THEN pm.overdue_char
    ELSE IF due_soon(c, pm.due_soon_days, t) THEN pm.due_soon_char
    ELSE IF in_progress(c, t) THEN pm.in_progress_char
    ELSE IF c.important THEN pm.important_char
    ELSE pm.default_char

-----------------------------------------------------------------------------
(* The configuration: base_config, and merge_config of a user's ConfigFile *)
(* over it.  A Color is the lower-case hex string of its RGB value.        *)

COLOR_PRESETS == {"default"}

\* the hex strings of base_config, as written there
BaseColorStrings ==
    [fg |-> "#c0caf5",
     secondary_fg |-> "#7f87ac",
     tertiary_fg |-> "#2c344d",
     highlight_fg |-> "#61a4ff",
     bg |-> "#11121D",
     primary |-> "#9556f7",
     success |-> "#85f67a",
     warning |-> "#ff9382",
     danger |-> "#ff4d66",
     date_fg |-> "#9293b8",
     time_fg |-> "#717299",
     input_fg |-> "#c0caf5",
     input_bg |-> "#232b44",
     input_focus_fg |-> "#c0caf5",
     input_focus_bg |-> "#373f58",
     input_cursor_fg |-> "#000000",
     input_cursor_bg |-> "#7f87ac",
     input_cursor_insert_fg |-> "#000000",
     input_cursor_insert_bg |-> "#c0caf5",
     active_fg |-> "#232b44",
     active_bg |-> "#00ffff",
     border |-> "#232b44",
     border_active |-> "#4d556e",
     border_insert |-> "#00FFFF",
     popup_bg |-> "#11121D",
     popup_border |-> "#A485DD",
     keybind_key |-> "#A485DD",
     keybind_fg |-> "#6698FF",
     title_bar_bg |-> "#373f58",
     title_bar_fg |-> "#CCCCCC",
     tab_fg |-> "#7f87ac",
     tab_active_fg |-> "#c0caf5",
     tab_border |-> "#373f58",
     status_bar_bg |-> "#232b44",
     status_bar_fg |-> "#7f87ac",
     status_bar_normal_mode_bg |-> "#9bff46",
     status_bar_normal_mode_fg |-> "#232b44",
     status_bar_insert_mode_bg |-> "#00ffff",
     status_bar_insert_mode_fg |-> "#232b44",
     status_bar_interactive_mode_bg |-> "#ffff32",
     status_bar_interactive_mode_fg |-> "#232b44",
     status_bar_delete_mode_bg |-> "#ff4d66",
     status_bar_delete_mode_fg |-> "#232b44"]

\* get_color: the Color, or the failure of the expect().  Color::from_str
\* reads the hex digits in either case; of the strings of the model it
\* accepts those of base_config and white.
get_color(color) ==
    LET LowerCase(s) ==
          CASE s = "#00FFFF" -> "#00ffff"
            [] s = "#11121D" -> "#11121d"
            [] s = "#6698FF" -> "#6698ff"
            [] s = "#A485DD" -> "#a485dd"
            [] s = "#CCCCCC" -> "#cccccc"
            [] s = "#FFFFFF" -> "#ffffff"
            [] OTHER -> s
        ColorStrings ==
          {BaseColorStrings[f] : f \in DOMAIN BaseColorStrings}
          \cup {"#FFFFFF", "#ffffff"}
    IN  IF color \in ColorStrings THEN LowerCase(color)
        ELSE "failed to get color from string"

color_op(color_op_, base_config_color) ==
    IF color_op_ # <<>> THEN get_color(color_op_[1]) ELSE base_config_color

\* render_card: the color of the dot of a label the card carries, or the
\* failure of the expect()
label_fg(color) ==
    IF get_color(color) # "failed to get color from string" THEN get_color(color)
    ELSE "failed to parse label color"

\* render_labels of the project editor: the color of a label's preview,
\* Color::from_str(..).unwrap_or(colors.bg)
label_preview_fg(color, colors) ==
    IF get_color(color) # "failed to get color from string" THEN get_color(color)
    ELSE colors.bg

base_config ==
    [log_level |-> "info",
     default_profile |-> <<>>,
     colors |-> [f \in DOMAIN BaseColorStrings \cup {"preset"} |->
                   IF f = "preset" THEN "default"
                   ELSE get_color(BaseColorStrings[f])],
     modules |->
       [home |-> [dashboard_title |-> "Privacy Life Tracker X",
                  dashboard_message |->
                    "Manage your personal life privately and securely."],
        project_management |->
          [max_lists |-> 5, due_soon_days |-> 3,
           completed_char |-> "check mark", overdue_char |-> "no entry",
           due_soon_char |-> "alarm clock", in_progress_char |-> "globe",
           important_char |-> "star", default_char |-> " "]],
     profiles |-> << [name |-> "dev", config_file |-> "dev.toml",
                      db_file |-> "dev.db", log_file |-> "dev.log"] >>]

base_dev_config(base_config_) ==
    [base_config_ EXCEPT
       !.log_level = "debug",
       !.modules.home.dashboard_title = "DEVELOPER PROFILE ENABLED",
       !.modules.home.dashboard_message = "This profile's data is separate!"]

\* the message of the first expect() that fails on the profiles, "" if
\* none: the fields of a profile are read in this order
RECURSIVE ProfilesFailure(_)
ProfilesFailure(a) ==
    LET ProfileFields ==
          << <<"name", "profile name not provided">>,
             <<"config_file", "profile config file not provided">>,
             <<"db_file", "profile db file not provided">>,
             <<"log_file", "profile log file not provided">> >>
    IN  IF a = <<>> THEN ""
        ELSE LET missing == {i \in 1..Len(ProfileFields) :
                                Head(a)[ProfileFields[i][1]] = <<>>}
             IN  IF missing # {}
                   THEN ProfileFields[CHOOSE i \in missing :
                                        \A j \in missing : i <= j][2]
                   ELSE ProfilesFailure(Tail(a))

\* a merge that takes a present group as it is given, absent fields and all
merge_config_whole_groups(user_config_, base_config_) ==
    [fatal |-> "",
     log_level |-> unwrap_or(user_config_.log_level, base_config_.log_level),
     default_profile |-> user_config_.log_level,
     colors |-> IF user_config_.colors # <<>>
                  THEN [f \in DOMAIN base_config_.colors |->
                          unwrap_or(user_config_.colors[1][f], "")]
                  ELSE base_config_.colors,
     modules |-> base_config_.modules,
     profiles |-> base_config_.profiles]

\* a merge that adds the override's profiles to the default ones
merge_config_appending_profiles(user_config_, base_config_) ==
    [fatal |-> "",
     log_level |-> unwrap_or(user_config_.log_level, base_config_.log_level),
     default_profile |-> user_config_.log_level,
     colors |-> base_config_.colors,
     modules |-> base_config_.modules,
     profiles |-> IF user_config_.profiles # <<>>
                    THEN base_config_.profiles \o
                         [i \in 1..Len(user_config_.profiles[1]) |->
                            [f \in DOMAIN user_config_.profiles[1][i] |->
                               unwrap_or(user_config_.profiles[1][i][f], "")]]
                    ELSE base_config_.profiles]

\* merge_config; `fatal` is the message of the panic that ends it, "" when
\* it returns the Config
merge_config(user_config_, base_config_) ==
    LET colors ==
          IF user_config_.colors = <<>> THEN <<>>
          ELSE LET a == user_config_.colors[1]
                   b == base_config_.colors
               IN  Some([f \in DOMAIN b |->
                          IF f = "preset"
                            THEN unwrap_or(IF a.preset # <<>>
                                              /\ a.preset[1] \in COLOR_PRESETS
                                             THEN a.preset ELSE <<>>,
                                           b.preset)
                            ELSE color_op(a[f], b[f])])
        modules ==
          IF user_config_.modules = <<>> THEN <<>>
          ELSE LET bcm == base_config_.modules
                   um  == user_config_.modules[1]
                   home ==
                     IF um.home = <<>> THEN <<>>
                     ELSE Some([f \in DOMAIN bcm.home |->
                                  unwrap_or(um.home[1][f], bcm.home[f])])
                   project_management ==
                     IF um.project_management = <<>> THEN <<>>
                     ELSE Some([f \in DOMAIN bcm.project_management |->
                                  unwrap_or(um.project_management[1][f],
                                            bcm.project_management[f])])
               IN  Some([home |-> unwrap_or(home, bcm.home),
                         project_management |->
                           unwrap_or(project_management, bcm.project_management)])
        profiles ==
          IF user_config_.profiles = <<>> THEN <<>>
          ELSE Some([i \in 1..Len(user_config_.profiles[1]) |->
                       [f \in DOMAIN user_config_.profiles[1][i] |->
                          unwrap_or(user_config_.profiles[1][i][f], "")]])
        fatal ==
          IF colors # <<>> /\ \E f \in DOMAIN BaseColorStrings :
                                 colors[1][f] = "failed to get color from string"
            THEN "failed to get color from string"
          ELSE IF user_config_.profiles # <<>>
            THEN ProfilesFailure(user_config_.profiles[1])
          ELSE ""
    IN  IF fatal # "" THEN [fatal |-> fatal]
        ELSE [fatal |-> "",
              log_level |-> unwrap_or(user_config_.log_level,
                                      base_config_.log_level),
              default_profile |-> user_config_.log_level,
              colors |-> unwrap_or(colors, base_config_.colors),
              modules |-> unwrap_or(modules, base_config_.modules),
              profiles |-> unwrap_or(profiles, base_config_.profiles)]

-----------------------------------------------------------------------------
(* The project editor.  The editor is one record: its fields, the App's    *)
(* mode, and what its last key event did (key, ret, ops, panicked).  The   *)
(* title of a label is left out; a label is its existing id (labels) and   *)
(* the number of characters of its color input (color_len).  err says that *)
(* the key event returned an error of the store.                           *)

LABEL_COLOR_REQUIRED_LENTH == 7

\* ProjectEditor::init, then set_new() for the editor of a new project
ProjectEditor_init(new) ==
    [new |-> new, data |-> <<>>, focused_pane |-> "Title",
     title |-> <<>>, description |-> <<>>, labels |-> <<>>,
     color_len |-> <<>>, action |-> "Save",
     selected_label |-> 0, focused_label_option |-> "Labels",
     label_col |-> "Title", mode |-> "normal",
     key |-> "", ret |-> FALSE, err |-> FALSE, ops |-> {}, stmts |-> <<>>,
     panicked |-> FALSE]

\* ProjectEditor::set_project with the row the SELECT found: the labels of
\* the row that the editor does not hold yet are pushed after those it holds,
\* and the inputs of those it holds are filled again from the row; a stored
\* color has the required length
set_project(e, row) ==
    LET Absent(l) == \A i \in 1..Len(e.labels) : e.labels[i] # <<l>>
        pushed    == SelectSeq(row.labels, Absent)
        Stored(i) == \E j \in 1..Len(row.labels) : e.labels[i] = <<row.labels[j]>>
    IN  [e EXCEPT !.data = <<row.id>>,
                  !.labels = @ \o [i \in 1..Len(pushed) |-> <<pushed[i]>>],
                  !.color_len = [i \in 1..Len(e.labels) |->
                                   IF Stored(i) THEN LABEL_COLOR_REQUIRED_LENTH
                                   ELSE e.color_len[i]]
                                \o [i \in 1..Len(pushed) |->
                                      LABEL_COLOR_REQUIRED_LENTH],
                  !.selected_label = IF row.labels # <<>> THEN 0 ELSE @,
                  !.title = row.title,
                  !.description = IF row.description = <<>> THEN <<>>
                                  ELSE row.description[1]]

\* ProjectEditor::reset
ProjectEditor_reset(e) ==
    [e EXCEPT !.focused_pane = "Title", !.action = "Save",
              !.title = <<>>, !.description = <<>>]

\* a statement on the table of a save, with what it binds: the id in its
\* WHERE clause (0 for an INSERT), the project, the position (an INSERT) and
\* the color; an UPDATE of a label sets title, color and updated_at and
\* binds no position
Unbound == -1

Statement(stmt, id, pid, position, color) ==
    [stmt |-> stmt, id |-> id, project_id |-> pid,
     position |-> position, color_len |-> color]

\* Connection::execute on each statement of a save in turn, with `?`: every
\* statement executed, or the statements before the one that failed
execute(e, statements) ==
    { [e EXCEPT !.ops = @ \cup {statements[i].stmt : i \in 1..Len(statements)},
                !.stmts = statements] }
    \cup { [e EXCEPT !.ops = @ \cup {statements[i].stmt : i \in 1..n},
                     !.stmts = SubSeq(statements, 1, n), !.err = TRUE]
           : n \in 0..(Len(statements) - 1) }

\* ProjectEditor::db_edit_labels: for a label with an id an UPDATE of title
\* and color WHERE project_id and id, for one without an INSERT at the
\* label's index
db_edit_labels(e, pid) ==
    [i \in 1..Len(e.labels) |->
       IF e.labels[i] # <<>>
         THEN Statement("UPDATE project_label", e.labels[i][1], pid,
                        Unbound, e.color_len[i])
         ELSE Statement("INSERT project_label", 0, pid, i - 1,
                        e.color_len[i])]

\* ProjectEditor::db_new_labels: an INSERT for every label, at its index
db_new_labels(e, pid) ==
    [i \in 1..Len(e.labels) |->
       Statement("INSERT project_label", 0, pid, i - 1, e.color_len[i])]

\* ProjectEditor::db_edit_project without the test of the data
db_edit_project_unchecked(e) ==
    execute(e, <<Statement("UPDATE project", 0, 0, Unbound, 0)>>
               \o db_edit_labels(e, 0))

\* ProjectEditor::db_edit_project with db_edit_labels: the statements issued
db_edit_project(e) ==
    IF e.data # <<>>
      THEN execute(e, <<Statement("UPDATE project", e.data[1], e.data[1], Unbound, 0)>>
                      \o db_edit_labels(e, e.data[1]))
      ELSE {[e EXCEPT !.panicked = TRUE]}     \* "project data was not set"

\* the id last_row_id gives the project that db_new_project inserts
NewProjectId == 3

\* ProjectEditor::db_new_project with db_new_labels; last_row_id may fail
\* after the INSERT of the project
db_new_project(e) ==
    LET insert == Statement("INSERT project", 0, NewProjectId, Unbound, 0)
    IN  execute(e, <<insert>> \o db_new_labels(e, NewProjectId))
        \cup {[e EXCEPT !.ops = @ \cup {"INSERT project"}, !.stmts = <<insert>>,
                        !.err = TRUE]}

\* ProjectEditor::save_project with the inputs cleared before the store has
\* answered
save_project_resetting_first(e) ==
    IF e.focused_pane = "Actions"
      THEN IF e.action = "Save"
             THEN { IF saved.panicked THEN saved
                    ELSE [ProjectEditor_reset(saved) EXCEPT !.ret = ~saved.err,
                                                           !.color_len = <<>>,
                                                           !.labels = <<>>]
                    : saved \in IF e.new THEN db_new_project(e)
                                ELSE db_edit_project(e) }
             ELSE {[ProjectEditor_reset(e) EXCEPT !.ret = TRUE]}
      ELSE {[e EXCEPT !.ret = FALSE]}

\* ProjectEditor::save_project; ret is the bool it returns, err is set when
\* it returns the error of a statement instead
save_project(e) ==
    IF e.focused_pane = "Actions"
      THEN IF e.action = "Save"
             THEN { IF saved.panicked \/ saved.err THEN saved
                    ELSE [ProjectEditor_reset(saved) EXCEPT !.ret = TRUE]
                    : saved \in IF e.new THEN db_new_project(e)
                                ELSE db_edit_project(e) }
             ELSE {[ProjectEditor_reset(e) EXCEPT !.ret = TRUE]}
      ELSE {[e EXCEPT !.ret = FALSE]}

\* ProjectEditor::key_event_handler: the editors it can end in.  First the
\* focused text input takes the key (in normal mode 'i' starts typing, in
\* insert mode Esc ends it and a character is typed), then the keys of the
\* editor are handled if the mode is normal.
ProjectEditor_key_event_handler(ed, key) ==
    LET e0 == [ed EXCEPT !.key = key, !.ret = FALSE, !.err = FALSE, !.ops = {},
                         !.stmts = <<>>]
        takes == \/ e0.focused_pane \in {"Title", "Description"}
                 \/ e0.focused_pane = "Labels" /\ e0.labels # <<>>
        Typed(input) ==
            IF e0.mode = "insert" /\ key \notin {"Backspace", "Enter", "Esc", "Tab"}
              THEN Append(input, key)
            ELSE IF e0.mode = "insert" /\ key = "Backspace" /\ input # <<>>
              THEN SubSeq(input, 1, Len(input) - 1)
            ELSE input
        e1 == [e0 EXCEPT
                 !.title = IF e0.focused_pane = "Title" THEN Typed(@) ELSE @,
                 !.description = IF e0.focused_pane = "Description"
                                   THEN Typed(@) ELSE @,
                 !.color_len = IF e0.focused_pane = "Labels" /\ e0.labels # <<>>
                                  /\ e0.label_col = "Color"
                                 THEN [@ EXCEPT ![e0.selected_label + 1] =
                                         Len(Typed([i \in 1..@ |-> "c"]))]
                                 ELSE @,
                 !.mode = IF takes /\ @ = "normal" /\ key = "i" THEN "insert"
                          ELSE IF takes /\ key = "Esc" THEN "normal"
                          ELSE @]
        AddLabelIfEmpty(e) ==
            IF e.labels = <<>> THEN [e EXCEPT !.focused_label_option = "AddLabel"]
            ELSE e
        focus_next(e) ==
            CASE e.focused_pane = "Title" -> [e EXCEPT !.focused_pane = "Description"]
              [] e.focused_pane = "Description" ->
                   [AddLabelIfEmpty(e) EXCEPT !.focused_pane = "Labels"]
              [] e.focused_pane = "Labels" -> [e EXCEPT !.focused_pane = "Actions"]
              [] e.focused_pane = "Actions" -> [e EXCEPT !.focused_pane = "Title"]
        focus_prev(e) ==
            CASE e.focused_pane = "Title" -> [e EXCEPT !.focused_pane = "Actions"]
              [] e.focused_pane = "Description" -> [e EXCEPT !.focused_pane = "Title"]
              [] e.focused_pane = "Labels" -> [e EXCEPT !.focused_pane = "Description"]
              [] e.focused_pane = "Actions" ->
                   [AddLabelIfEmpty(e) EXCEPT !.focused_pane = "Labels"]
        toggle_label_col(e) ==
            IF e.focused_pane = "Labels" /\ e.focused_label_option = "Labels"
              THEN [e EXCEPT !.label_col = IF @ = "Title" THEN "Color" ELSE "Title"]
              ELSE e
        next_label(e) ==
            IF e.focused_label_option = "Labels"
              THEN IF saturating_sub(Len(e.labels), 1) = e.selected_label
                     THEN {[e EXCEPT !.focused_label_option = "AddLabel"]}
                     ELSE {[e EXCEPT !.selected_label =          \* saturating_add
                                       IF @ = UsizeMax THEN @ ELSE @ + 1]}
              ELSE {[e EXCEPT !.focused_label_option = "Labels",
                              !.selected_label = 0]}
        \* labels.len() - 1 underflows on an empty label list: a panic in a
        \* build with overflow checks, usize::MAX in one without
        prev_label(e) ==
            IF e.focused_label_option = "Labels"
              THEN IF e.selected_label = 0
                     THEN {[e EXCEPT !.focused_label_option = "AddLabel"]}
                     ELSE {[e EXCEPT !.selected_label =
                                       IF @ = UsizeMax THEN @ ELSE @ - 1]}
              ELSE IF e.labels = <<>>
                     THEN {[e EXCEPT !.panicked = TRUE],
                           [e EXCEPT !.focused_label_option = "Labels",
                                     !.selected_label = UsizeMax]}
                     ELSE {[e EXCEPT !.focused_label_option = "Labels",
                                     !.selected_label = Len(e.labels) - 1]}
        add_label(e) ==
            [e EXCEPT !.labels = Append(@, <<>>),
                      !.color_len = Append(@, LABEL_COLOR_REQUIRED_LENTH),
                      !.selected_label = Len(e.labels),
                      !.focused_label_option = "Labels",
                      !.label_col = "Title"]
        \* Buttons::focus_next and focus_prev over (Save, Cancel)
        actions_focus_next(e) == [e EXCEPT !.action = "Cancel"]
        actions_focus_prev(e) == [e EXCEPT !.action = "Save"]
    IN  IF e0.focused_pane = "Labels" /\ e0.labels # <<>>
           /\ e0.selected_label >= Len(e0.labels)
          THEN {[e0 EXCEPT !.panicked = TRUE]}     \* labels[selected_label]
        ELSE IF e1.mode # "normal" THEN {e1}
        ELSE CASE key = "[" -> {[ProjectEditor_reset(e1) EXCEPT !.ret = TRUE]}
               [] key = "K" -> {focus_prev(e1)}
               [] key = "J" -> {focus_next(e1)}
               [] key = "j" ->
                    CASE e1.focused_pane = "Labels"  -> next_label(e1)
                      [] e1.focused_pane = "Actions" -> {actions_focus_next(e1)}
                      [] OTHER -> {e1}
               [] key = "k" ->
                    CASE e1.focused_pane = "Labels"  -> prev_label(e1)
                      [] e1.focused_pane = "Actions" -> {actions_focus_prev(e1)}
                      [] OTHER -> {e1}
               [] key = "Tab" -> {toggle_label_col(e1)}
               [] key = "Enter" ->
                    IF e1.focused_pane = "Labels"
                       /\ e1.focused_label_option = "AddLabel"
                      THEN {add_label(e1)}
                      ELSE save_project(e1)
               [] OTHER -> {e1}

(* The project editor of the screens module steps with 'j' and 'k' through  *)
(* the Add Label slot and the Save and Cancel buttons as well.  Its record  *)
(* holds the fields these steps read and write; labels is the number of    *)
(* label inputs.                                                           *)

ScreensEditor_init ==
    [focused_pane |-> "Title", focused_label_option |-> "Labels",
     action |-> "Save", labels |-> 0, key |-> "", ret |-> FALSE,
     panicked |-> FALSE]

\* ProjectEditor::next_focus
next_focus(e) ==
    CASE e.focused_pane = "Title" -> [e EXCEPT !.focused_pane = "Description"]
      [] e.focused_pane = "Description" ->
           [e EXCEPT !.focused_pane = "Labels",
                     !.focused_label_option = IF e.labels = 0 THEN "AddLabel"
                                              ELSE "Labels"]
      [] e.focused_pane = "Labels" ->
           IF e.focused_label_option = "Labels"
             THEN [e EXCEPT !.focused_label_option = "AddLabel"]
             ELSE [e EXCEPT !.focused_pane = "Actions"]
      [] e.focused_pane = "Actions" ->
           IF e.action = "Save" THEN [e EXCEPT !.action = "Cancel"]
           ELSE [e EXCEPT !.focused_pane = "Title", !.action = "Save"]

\* ProjectEditor::prev_focus that leaves the Actions pane by its Cancel button
prev_focus_from_cancel(e) ==
    CASE e.focused_pane = "Title" ->
           [e EXCEPT !.focused_pane = "Actions", !.action = "Cancel"]
      [] e.focused_pane = "Description" -> [e EXCEPT !.focused_pane = "Title"]
      [] e.focused_pane = "Labels" -> [e EXCEPT !.focused_pane = "Description"]
      [] e.focused_pane = "Actions" ->
           [e EXCEPT !.focused_pane = "Labels", !.focused_label_option = "AddLabel"]

\* ProjectEditor::prev_focus
prev_focus(e) ==
    CASE e.focused_pane = "Title" ->
           [e EXCEPT !.focused_pane = "Actions", !.action = "Cancel"]
      [] e.focused_pane = "Description" -> [e EXCEPT !.focused_pane = "Title"]
      [] e.focused_pane = "Labels" ->
           IF e.focused_label_option = "AddLabel" /\ e.labels # 0
             THEN [e EXCEPT !.focused_label_option = "Labels"]
             ELSE [e EXCEPT !.focused_pane = "Description"]
      [] e.focused_pane = "Actions" ->
           IF e.action = "Save"
             THEN [e EXCEPT !.focused_pane = "Labels",
                            !.focused_label_option = "AddLabel"]
             ELSE [e EXCEPT !.action = "Save"]

\* ProjectEditor::key_event_handler of the screens module in navigation
\* mode: 'j' and 'k' step, Enter adds a label on the Add Label slot and
\* saves or cancels on the Actions pane, '[' cancels
ScreensEditor_key_event_handler(ed, key) ==
    LET e == [ed EXCEPT !.key = key, !.ret = FALSE]
        to_title(x) == [x EXCEPT !.focused_pane = "Title", !.action = "Save"]
    IN  CASE key = "[" -> [to_title(e) EXCEPT !.ret = TRUE]
          [] key = "j" -> next_focus(e)
          [] key = "k" -> prev_focus(e)
          [] key = "Enter" ->
               IF e.focused_pane = "Labels" /\ e.focused_label_option = "AddLabel"
                 THEN [e EXCEPT !.labels = @ + 1, !.focused_label_option = "Labels"]
               ELSE IF e.focused_pane = "Actions" THEN [to_title(e) EXCEPT !.ret = TRUE]
               ELSE e
          [] OTHER -> e

\* ListEditor::set: the SELECT of the row by its id panics if no row has it
ListEditor_set(s, list_id) ==
    IF \E r \in s.project_list : r.id = list_id
      THEN [s EXCEPT !.list_data = <<list_id>>]
      ELSE Panic(s)

-----------------------------------------------------------------------------
(* The state machine *)

ProjectIds == {1, 2}

\* the projects the user opens
SelectableIds == {1}

\* the keys that open a project from the project list
OpenKeys == {"Enter", "l"}

\* the keys of the board that select, reorder, move and delete
StructureKeys == {"h", "l", "H", "L", "j", "k", "J", "K", "d", "n", "y"}

\* the keys that open, complete and cancel the popups of the board
PopupKeys == {"h", "l", "j", "k", "n", "e", "Enter", "Esc"}

Card(id, list_id, pid, position) ==
    [id |-> id, list_id |-> list_id, project_id |-> pid, position |-> position,
     completed |-> FALSE, important |-> FALSE]

\* the store the model starts from: two projects, positions dense in each
InitLists ==
    { [id |-> 1, project_id |-> 1, position |-> 0],
      [id |-> 2, project_id |-> 1, position |-> 1],
      [id |-> 3, project_id |-> 2, position |-> 0],
      [id |-> 4, project_id |-> 2, position |-> 1] }

InitCards ==
    { Card(1, 1, 1, 0), Card(2, 1, 1, 1), Card(3, 2, 1, 0) }

NoEvent == [key |-> "", ops |-> {}, deleted |-> 0, inserted |-> 0, moved |-> 0]

NoTrip == [phase |-> "none", card |-> 0, back |-> 0, list |-> 0,
           before |-> {}, order |-> <<>>, dense |-> FALSE]

\* the state as one record, with the per-event fields cleared
St ==
    [project_list |-> project_list, project_card |-> project_card,
     page |-> page, project_id |-> project_id,
     selected_list_index |-> selected_list_index, data |-> data,
     popup |-> popup, delete_selection |-> delete_selection,
     list_selections |-> list_selections, focus |-> focus,
     view |-> view, mode |-> mode, panicked |-> panicked,
     ops |-> {}, deleted |-> 0, inserted |-> 0, moved |-> 0,
     closed |-> FALSE, ret |-> FALSE,
     \* the store executes every statement; no error has been returned
     faulty |-> FALSE, err |-> "",
     \* popups.edit_list.data: set() loads it as 'e' opens the popup
     list_data |-> IF popup = "EditList" /\ selected_list_index + 1 \in DOMAIN data
                     THEN <<data[selected_list_index + 1].id>> ELSE <<>>]

\* the application after construction, over a given store
InitOver(lists, cards) ==
    /\ project_list = lists
    /\ project_card = cards
    /\ page = "ListProjects"
    /\ project_id = None
    /\ selected_list_index = 0
    /\ data = <<>>
    /\ popup = "None"
    /\ delete_selection = "None"
    /\ list_selections = <<>>
    /\ focus = "Card"
    /\ view = "default"
    /\ mode = "normal"
    /\ panicked = FALSE
    /\ ev = NoEvent
    /\ rt = NoTrip
    /\ state = [mode |-> "Navigation", popup |-> "None", screen |-> 0,
                window |-> "Navigation"]
    /\ app = [popup |-> "None", module |-> "Dashboard", exit |-> FALSE]
    /\ command_handler = CommandHandler_init
    /\ hist = NotOpened

\* no card has been rendered: a card without dates stands in
NoCardRendered ==
    /\ card_shown = [completed |-> FALSE, important |-> FALSE,
                     start_date |-> <<>>, due_date |-> <<>>, labels |-> <<>>]
    /\ due_soon_days = base_config.modules.project_management.due_soon_days
    /\ now = 0
    /\ rendered = <<>>

\* no configuration has been merged: a ConfigFile without entries stands in
NoConfigMerged ==
    /\ user_config = [log_level |-> <<>>, default_profile |-> <<>>,
                      profiles |-> <<>>, colors |-> <<>>, modules |-> <<>>]
    /\ base = base_config
    /\ config = <<>>

\* no editor is driven on its own: an edit-mode project editor stands in
NoEditorShown == editor = ProjectEditor_init(FALSE)

Init ==
    InitOver(InitLists, InitCards)
    /\ NoCardRendered /\ NoConfigMerged /\ NoEditorShown

CardsOf(rows, list_id) == {c \in rows : c.list_id = list_id}

ListsOf(rows, pid) == {r \in rows : r.project_id = pid}

Dense(rows) == {r.position : r \in rows} = 0..(Cardinality(rows) - 1)
               /\ \A q, r \in rows : q.position = r.position => q = r

Row(rows, id) == CHOOSE r \in rows : r.id = id

IdsOf(cards) == [i \in 1..Len(cards) |-> cards[i].id]

\* history of a move right that is immediately followed by a move left
RoundTrip(s, s2) ==
    IF "move_card_right" \in s2.ops
      THEN LET from == Row(s.project_card, s2.moved).list_id
               to   == Row(s2.project_card, s2.moved).list_id
           IN  [phase |-> "right", card |-> s2.moved, back |-> 0, list |-> from,
                before |-> CardsOf(s.project_card, from),
                order |-> IdsOf(SelectedList(s).cards),
                dense |-> Dense(CardsOf(s.project_card, from))
                          /\ Dense(CardsOf(s.project_card, to))]
    ELSE IF "move_card_left" \in s2.ops /\ rt.phase = "right"
      THEN [rt EXCEPT !.phase = "back", !.back = s2.moved]
    ELSE NoTrip

\* what the key event executed; a key event that neither executed a
\* statement changing the store nor changed the mode leaves no history
Event(key, s, s2) ==
    IF s2.ops \ {"db_get_project"} = {} /\ s2.mode = s.mode THEN NoEvent
    ELSE [key |-> key, ops |-> s2.ops, deleted |-> s2.deleted,
          inserted |-> s2.inserted, moved |-> s2.moved]

\* one key event, handled to its end by Projects::key_event_handler; the
\* round-trip history is kept where `trips` says so
KeyEvent(key, selected_id, trips) ==
    /\ ~panicked /\ ~app.exit
    /\ \E s2 \in Projects_key_event_handler(St, key, selected_id) :
         /\ project_list' = s2.project_list
         /\ project_card' = s2.project_card
         /\ page' = s2.page
         /\ project_id' = s2.project_id
         /\ selected_list_index' = s2.selected_list_index
         /\ data' = s2.data
         /\ popup' = s2.popup
         /\ delete_selection' = s2.delete_selection
         /\ list_selections' = s2.list_selections
         /\ focus' = s2.focus
         /\ view' = s2.view
         /\ mode' = s2.mode
         /\ panicked' = s2.panicked
         /\ ev' = Event(key, St, s2)
         /\ rt' = IF trips THEN RoundTrip(St, s2) ELSE rt
         /\ UNCHANGED <<appvars, purevars, editor>>

\* a key event on the project list page
ListProjectsKey ==
    /\ page = "ListProjects"
    /\ \E key \in OpenKeys, selected_id \in SelectableIds \cup {None} :
         KeyEvent(key, selected_id, FALSE)

\* a key event on the board: selecting, reordering, moving, deleting
BoardKey ==
    /\ page = "OpenProject"
    /\ \E key \in StructureKeys : KeyEvent(key, None, TRUE)

Next == ListProjectsKey \/ BoardKey

Spec == Init /\ [][Next]_vars

GlobalKeys == {"?", "q", "j", "k", "h", "l", "Esc"}

CommandKeys ==
    InputChars
    \cup {Letters("project management")[i] : i \in 1..LongestCommand}
    \cup {"Backspace", "Enter", "Esc", "j", "k"}

HelpKeys == {"?", "q", "Esc"}

\* set the App's variables from its record
SetApp(a) ==
    /\ view' = a.view
    /\ mode' = a.mode
    /\ app' = [popup |-> a.popup, module |-> a.module, exit |-> a.exit]

\* a key event handled by the global keybinds
GlobalKey ==
    /\ ~app.exit
    /\ \E key \in GlobalKeys :
         LET st == handle_key_event(
                     [mode |-> state.mode, popup |-> state.popup,
                      screen |-> state.screen, window |-> state.window,
                      exit |-> app.exit], key)
         IN  /\ state' = [mode |-> st.mode, popup |-> st.popup,
                          screen |-> st.screen, window |-> st.window]
             /\ app' = [app EXCEPT !.exit = st.exit]
             /\ hist' =
                  IF state.popup = "None" /\ st.popup # "None"
                    THEN [hist EXCEPT !.state_mode = state.mode,
                                        !.last = "global popup opened",
                                        !.key = ""]
                  ELSE IF state.popup # "None" /\ st.popup = "None"
                    THEN [hist EXCEPT !.last = "global popup closed",
                                        !.key = ""]
                  ELSE [hist EXCEPT !.key = ""]
    /\ UNCHANGED <<boardvars, view, mode, command_handler, purevars, editor>>

\* the command handler is brought up from the default view, for typing
OpenCommand ==
    /\ ~app.exit /\ ~panicked
    /\ view = "default" /\ mode = "normal"
    /\ SetApp([command_display(TheApp) EXCEPT !.mode = "insert"])
    /\ hist' = [hist EXCEPT !.key = ""]
    /\ UNCHANGED <<boardvars, state, command_handler, purevars, editor>>

\* a key event while the command handler is up, the user typing nothing
\* but the inputs of `typed`
CommandKeyTyping(typed) ==
    /\ ~app.exit
    /\ view = "command"
    /\ \E key \in CommandKeys :
         /\ TextInput_key_event_handler(TheApp, command_handler.command, key)
              \in typed
         /\ \E r \in CommandHandler_key_event_handler(TheApp, command_handler, key) :
              /\ SetApp(r.app)
              /\ command_handler' = r.ch
              /\ hist' =
                   IF app.popup = "None" /\ r.app.popup # "None"
                     THEN [hist EXCEPT !.view = view, !.mode = mode,
                                         !.last = "help opened", !.key = key]
                     ELSE [hist EXCEPT !.key = key]
    /\ UNCHANGED <<boardvars, state, purevars, editor>>
\* the user types short inputs
CommandKey ==
    CommandKeyTyping(UNION { [1..n -> InputChars] : n \in 0..MaxInput })
\* a key event while the help popup is up
HelpKey ==
    /\ ~app.exit
    /\ view = "popup" /\ app.popup = "Help"
    /\ \E key \in HelpKeys :
         LET a == Help_key_event_handler(TheApp, key)
         IN  /\ SetApp(a)
             /\ hist' = IF a.popup = "None"
                            THEN [hist EXCEPT !.last = "help closed", !.key = ""]
                            ELSE [hist EXCEPT !.key = ""]
    /\ UNCHANGED <<boardvars, state, command_handler, purevars, editor>>

NextApp == GlobalKey \/ OpenCommand \/ CommandKey \/ HelpKey

SpecApp == Init /\ [][NextApp]_vars
\* the user types short inputs, and the longest command and one character
\* more, character by character
LongCommandKey ==
    LET LongInput == Letters("project management") \o <<"h">>
    IN  CommandKeyTyping(
          UNION { [1..n -> InputChars] : n \in 0..MaxInput }
          \cup { SubSeq(LongInput, 1, n) : n \in 0..Len(LongInput) })
NextCommand == OpenCommand \/ LongCommandKey \/ HelpKey
SpecCommand == Init /\ [][NextCommand]_vars

\* every key the board handles
BoardKeys == StructureKeys \cup PopupKeys \cup {"c", "i"}

\* a store in which the opened project has no list yet
EmptyProjectLists == { [id |-> 2, project_id |-> 2, position |-> 0] }

\* the cards of the other project
OtherProjectCards == { Card(2, 2, 2, 0) }

InitEmptyProject ==
    InitOver(EmptyProjectLists, OtherProjectCards)
    /\ NoCardRendered /\ NoConfigMerged /\ NoEditorShown

\* a key event on the board, any key: the popups and toggles included
AnyBoardKey ==
    /\ page = "OpenProject"
    /\ \E key \in BoardKeys : KeyEvent(key, None, FALSE)

NextPopup == ListProjectsKey \/ AnyBoardKey

SpecPopup == InitEmptyProject /\ [][NextPopup]_vars

-----------------------------------------------------------------------------
(* render_card applied to a card *)

\* dates lie within this many days of day 0
MaxDay == 3

InitCard ==
    /\ InitOver(InitLists, InitCards)
    /\ LET Dates == {<<>>} \cup {<<d>> : d \in -MaxDay..MaxDay}
           \* the stored colors of the labels the card carries: none, or one
           \* label with a color, an empty string or a string that is no color
           LabelColors == {<<>>} \cup {<<c>> : c \in {"#FFFFFF", "", "no color"}}
       IN  card_shown \in [completed : BOOLEAN, important : BOOLEAN,
                           start_date : Dates, due_date : Dates,
                           labels : LabelColors]
    /\ due_soon_days \in -1..MaxDay
    /\ now \in 0..1
    /\ rendered = <<>>
    /\ NoConfigMerged /\ NoEditorShown

\* render_card on the card, with the configured characters, and the
\* project editor's preview of the same labels; a failed expect() panics
RenderCard ==
    /\ rendered = <<>>
    /\ LET pm == [base_config.modules.project_management
                    EXCEPT !.due_soon_days = due_soon_days]
           fgs == [i \in DOMAIN card_shown.labels |-> label_fg(card_shown.labels[i])]
       IN  rendered' = Some([status_char |-> status_char(card_shown, pm, now),
                             overdue     |-> overdue(card_shown, now),
                             due_soon    |-> due_soon(card_shown, pm.due_soon_days, now),
                             in_progress |-> in_progress(card_shown, now),
                             label_fgs   |-> fgs,
                             panicked    |-> \E i \in DOMAIN fgs :
                                               fgs[i] = "failed to parse label color",
                             preview_fgs |-> [i \in DOMAIN card_shown.labels |->
                                               label_preview_fg(card_shown.labels[i],
                                                                base_config.colors)]])
    /\ UNCHANGED <<boardvars, view, mode, appvars, card_shown, due_soon_days, now,
                   user_config, base, config, editor>>

SpecCard == InitCard /\ [][RenderCard]_vars

-----------------------------------------------------------------------------
(* merge_config applied to a user's ConfigFile *)

\* the ConfigFiles of the model set one of two color fields, to black, to
\* white or to a string that is no color; a preset that exists or not; the
\* module groups and two of their fields; profiles, complete or lacking a
\* field
InitConfig ==
    /\ InitOver(InitLists, InitCards)
    /\ NoCardRendered /\ NoEditorShown
    /\ LET OptionOf(S) == {<<>>} \cup {<<v>> : v \in S}
           OverriddenColors == {"fg", "status_bar_delete_mode_fg"}
           OverrideStrings == {"#000000", "#FFFFFF", "no color"}
           NoColors == [f \in DOMAIN BaseColorStrings \cup {"preset"} |-> <<>>]
           ColorsFiles ==
             { [c EXCEPT !["preset"] = p] :
                 c \in {NoColors} \cup
                       { [NoColors EXCEPT ![f] = <<v>>] :
                           f \in OverriddenColors, v \in OverrideStrings },
                 p \in OptionOf({"default", "dark"}) }
           NoFields ==
             [f \in DOMAIN base_config.modules.project_management |-> <<>>]
           ModulesFiles ==
             [home : OptionOf([dashboard_title : OptionOf({"Tracker"}),
                               dashboard_message : OptionOf({"Hello"})]),
              project_management :
                OptionOf({ [NoFields EXCEPT !["max_lists"] = m,
                                            !["completed_char"] = c] :
                             m \in OptionOf({7}), c \in OptionOf({"x"}) })]
           P(n) == [name |-> <<n>>, config_file |-> <<n \o ".toml">>,
                    db_file |-> <<n \o ".db">>, log_file |-> <<n \o ".log">>]
           ProfilesFiles ==
             {<<>>, <<P("work")>>, <<P("work"), P("home")>>,
              <<P("home"), P("work")>>}
             \cup { <<[P("work") EXCEPT ![f] = <<>>]>> : f \in DOMAIN P("work") }
             \cup { <<P("home"), [P("work") EXCEPT !.log_file = <<>>]>> }
       IN  user_config \in [log_level : OptionOf({"debug"}),
                            default_profile : OptionOf({"work"}),
                            profiles : OptionOf(ProfilesFiles),
                            colors : OptionOf(ColorsFiles),
                            modules : OptionOf(ModulesFiles)]
    /\ base \in {base_config, base_dev_config(base_config)}
    /\ config = <<>>

\* init_config: merge_config(user_config, base)
MergeConfig ==
    /\ config = <<>>
    /\ config' = Some(merge_config(user_config, base))
    /\ UNCHANGED <<boardvars, view, mode, appvars, card_shown, due_soon_days, now,
                   rendered, user_config, base, editor>>

SpecConfig == InitConfig /\ [][MergeConfig]_vars

-----------------------------------------------------------------------------
(* The editors driven on their own: set()/set_project() and key events *)

\* longest text typed into the title or the description
MaxText == 1
\* most labels the project editor holds
MaxLabels == 2
\* fewest characters the user leaves in the color of a label
MinColorLen == 6

\* an editor after construction: a project editor, or a list editor over a
\* store with room for a list or with a list at the highest position
InitEditor ==
    /\ InitOver(InitLists, InitCards)
    /\ NoCardRendered /\ NoConfigMerged
    /\ LET FullLists == { [id |-> 1, project_id |-> 2, position |-> MaxListPosition] }
       IN  editor \in
             { ProjectEditor_init(new) : new \in BOOLEAN }
             \cup { [is_new |-> is_new, list_data |-> <<>>, project_list |-> lists,
                     project_id |-> 2, view |-> "popup", mode |-> "insert",
                     panicked |-> FALSE, ops |-> {}, inserted |-> 0,
                     closed |-> FALSE, key |-> ""]
                    : is_new \in BOOLEAN, lists \in {EmptyProjectLists, FullLists} }

\* the table project_label when a save begins: project 2 has label 1
StoredLabels == { [id |-> 1, project_id |-> 2, position |-> 0,
                   color_len |-> LABEL_COLOR_REQUIRED_LENTH] }

\* the table project_label after the statements of a save: an UPDATE sets the
\* color of the rows its WHERE clause selects, an INSERT adds a row with the
\* next id
RECURSIVE ApplyStatements(_, _)
ApplyStatements(rows, statements) ==
    IF statements = <<>> THEN rows
    ELSE LET s == Head(statements)
             after ==
               CASE s.stmt = "UPDATE project_label" ->
                      { IF r.id = s.id /\ r.project_id = s.project_id
                          THEN [r EXCEPT !.color_len = s.color_len] ELSE r
                        : r \in rows }
                 [] s.stmt = "INSERT project_label" ->
                      rows \cup { [id |-> Max({r.id : r \in rows} \cup {0}) + 1,
                                   project_id |-> s.project_id,
                                   position |-> s.position,
                                   color_len |-> s.color_len] }
                 [] OTHER -> rows
         IN  ApplyStatements(after, Tail(statements))

\* set_project() on the edit-mode project editor while its page is closed,
\* or set() on the edit-mode list editor; the history of the last key event
\* is cleared
EditorSet ==
    /\ ~editor.panicked
    /\ IF "is_new" \in DOMAIN editor
         THEN /\ ~editor.is_new
              /\ \E list_id \in 1..MaxListId : editor' = [ListEditor_set(editor, list_id)
                             EXCEPT !.key = "", !.ops = {}, !.inserted = 0,
                                    !.closed = FALSE]
         ELSE /\ "new" \in DOMAIN editor
              /\ ~editor.new
              /\ editor.key = "" \/ editor.ret
              /\ \E row \in { [id |-> 1, title |-> <<"J">>, description |-> <<>>,
                                labels |-> <<>>],
                               [id |-> 2, title |-> <<"[">>, description |-> <<<<"J">>>>,
                                labels |-> <<1>>] } :
                   editor' = [set_project(editor, row)
                                EXCEPT !.key = "", !.ops = {}, !.ret = FALSE,
                                       !.err = FALSE, !.stmts = <<>>]
    /\ UNCHANGED <<boardvars, view, mode, appvars, purevars>>

\* a key event handled by the project editor; in insert mode the user types
\* 'J' or '['
ProjectEditorKey ==
    /\ "new" \in DOMAIN editor /\ ~editor.panicked
    /\ \E key \in {"[", "K", "J", "j", "k", "Tab", "Enter", "i", "Esc", "Backspace"} :
         /\ editor.mode = "insert" => key \notin {"K", "j", "k", "i"}
         /\ \E e \in ProjectEditor_key_event_handler(editor, key) :
              /\ Len(e.title) <= MaxText /\ Len(e.description) <= MaxText
              /\ Len(e.labels) <= MaxLabels
              /\ \A i \in 1..Len(e.color_len) :
                    /\ e.color_len[i] >= MinColorLen
                    /\ e.color_len[i] <= LABEL_COLOR_REQUIRED_LENTH
              /\ editor' = e
    /\ UNCHANGED <<boardvars, view, mode, appvars, purevars>>

\* a key event handled by the list editor, shown as a popup in insert mode
ListEditorKey ==
    /\ "is_new" \in DOMAIN editor /\ ~editor.panicked
    /\ \E key \in {"Enter", "a", "Esc"} :
         \E e \in ListEditor_key_event_handler(
                     [editor EXCEPT !.key = key, !.ops = {}, !.inserted = 0,
                                    !.closed = FALSE,
                                    !.view = "popup", !.mode = "insert"],
                     editor.is_new, key) :
           editor' = e
    /\ UNCHANGED <<boardvars, view, mode, appvars, purevars>>

NextEditor == EditorSet \/ ProjectEditorKey \/ ListEditorKey

SpecEditor == InitEditor /\ [][NextEditor]_vars

\* a project editor of either module after construction
InitProjectEditors ==
    /\ InitOver(InitLists, InitCards)
    /\ NoCardRendered /\ NoConfigMerged
    /\ editor \in { ProjectEditor_init(new) : new \in BOOLEAN }
                   \cup { ScreensEditor_init }

\* a key event handled by the project editor of the screens module, in
\* navigation mode; the add_label that switches to insert mode is followed
\* by the user's return to navigation mode
ScreensEditorKey ==
    /\ "new" \notin DOMAIN editor /\ "is_new" \notin DOMAIN editor
    /\ \E key \in {"[", "j", "k", "Enter"} :
         LET e == ScreensEditor_key_event_handler(editor, key)
         IN  /\ e.labels <= MaxLabels
             /\ editor' = e
    /\ UNCHANGED <<boardvars, view, mode, appvars, purevars>>

NextProjectEditors == EditorSet \/ ProjectEditorKey \/ ScreensEditorKey

SpecProjectEditors == InitProjectEditors /\ [][NextProjectEditors]_vars

-----------------------------------------------------------------------------
(* The Form widget.  A form is one record: the number of its input widgets, *)
(* focused_input, and what the last call did (op, focused_input before it,  *)
(* the widget a key event was dispatched to).                               *)

\* most input widgets of a form
MaxWidgets == 8

\* Form::new over n input widgets
Form_new(n) ==
    [widgets |-> n, focused_input |-> 0, op |-> "", before |-> 0,
     dispatched |-> <<>>, panicked |-> FALSE]

Called(f, op) ==
    [f EXCEPT !.op = op, !.before = f.focused_input, !.dispatched = <<>>]

Form_is_focus_first(f) == f.focused_input = 0

\* self.focused_input == self.input_widgets.len() - 1, per value of the
\* subtraction (-1 stands for its panic)
Form_is_focus_last(f) ==
    { IF last < 0 THEN "panic" ELSE IF f.focused_input = last THEN "yes" ELSE "no"
      : last \in LenMinusOne(f.widgets) }

Form_focus_first(f) == { [Called(f, "focus_first") EXCEPT !.focused_input = 0] }

Form_focus_last(f) ==
    { IF last < 0 THEN Panic(Called(f, "focus_last"))
      ELSE [Called(f, "focus_last") EXCEPT !.focused_input = last]
      : last \in LenMinusOne(f.widgets) }

\* a focus_next that goes from the last widget to the first
Form_focus_next_wrapping(f) ==
    { [Called(f, "focus_next") EXCEPT
         !.focused_input = IF @ + 1 >= f.widgets THEN 0 ELSE @ + 1] }

Form_focus_next(f) ==
    { CASE is_last = "panic" -> Panic(Called(f, "focus_next"))
        [] is_last = "yes"   -> Called(f, "focus_next")
        [] OTHER -> [Called(f, "focus_next") EXCEPT
                       !.focused_input = IF @ = UsizeMax THEN @ ELSE @ + 1]
      : is_last \in Form_is_focus_last(f) }

Form_focus_prev(f) ==
    { IF Form_is_focus_first(f) THEN Called(f, "focus_prev")
      ELSE [Called(f, "focus_prev") EXCEPT !.focused_input = @ - 1] }

\* self.input_widgets[self.focused_input] takes the key event
Form_key_event_handler(f) ==
    { IF f.focused_input < f.widgets
        THEN [Called(f, "key_event_handler") EXCEPT
                !.dispatched = <<f.focused_input>>]
        ELSE Panic(Called(f, "key_event_handler")) }

\* a form after construction, with at least one input widget
InitForm ==
    /\ InitOver(InitLists, InitCards)
    /\ NoCardRendered /\ NoConfigMerged
    /\ editor \in { Form_new(n) : n \in 1..MaxWidgets }

FormCall(outcomes) ==
    /\ ~editor.panicked
    /\ editor' \in outcomes
    /\ UNCHANGED <<boardvars, view, mode, appvars, purevars>>

FormFocusFirst == FormCall(Form_focus_first(editor))

FormFocusLast == FormCall(Form_focus_last(editor))

FormFocusNext == FormCall(Form_focus_next(editor))

FormFocusPrev == FormCall(Form_focus_prev(editor))

FormKey == FormCall(Form_key_event_handler(editor))

NextForm ==
    FormFocusFirst \/ FormFocusLast \/ FormFocusNext \/ FormFocusPrev \/ FormKey

SpecForm == InitForm /\ [][NextForm]_vars

-----------------------------------------------------------------------------
(* Properties of the board's store operations *)

CardOps == {"db_delete_card", "increment_card_position",
            "decrement_card_position", "move_card_left", "move_card_right"}

ListOps == {"db_delete_list", "increment_list_position",
            "decrement_list_position"}

\* the cards sharing each list_id have the positions 0..n-1, each once
CardsDense ==
    \A l \in {c.list_id : c \in project_card} : Dense(CardsOf(project_card, l))

\* the lists sharing each project_id have the positions 0..n-1, each once
ListsDense ==
    \A p \in ProjectIds : Dense(ListsOf(project_list, p))

\* C1: a board card operation (confirmed delete, J/K reorder, H/L move) that
\* starts from a store whose cards are dense in every list leaves the cards
\* of every list dense again.
C1_CardPositionsStayDense ==
    [][(CardsDense /\ ev'.ops \cap CardOps # {}) => CardsDense']_vars

\* C2: a confirmed list deletion or a list reorder that starts from a store
\* whose lists are dense in every project leaves the lists of every project,
\* the open one and the others, dense again.
C2_ListPositionsStayDense ==
    [][(ListsDense /\ ev'.ops \cap ListOps # {}) => ListsDense']_vars

\* C4: a confirmed card delete removes that card's row and decrements the
\* position of exactly the cards with the same list_id and a higher
\* position; every other card row is unchanged.
C4_DeleteCardFrame ==
    [][ "db_delete_card" \in ev'.ops =>
          LET card == Row(project_card, ev'.deleted)
          IN  project_card' =
                decrement_positions_after_where(project_card \ {card},
                                                card.position, card.list_id)
      ]_vars

\* the cards of list `list_id` as the board shows them
ShownIds(list_id) ==
    IF \E i \in 1..Len(data) : data[i].id = list_id
      THEN IdsOf(data[CHOOSE i \in 1..Len(data) : data[i].id = list_id].cards)
      ELSE <<>>

\* C5 as stated: after a move right immediately followed by a move left, the
\* card is back in its original list and the list shows its cards in the
\* order it showed before the round trip.
C5_RoundTripKeepsOrdering ==
    (rt.phase = "back" /\ ~panicked) =>
        /\ Row(project_card, rt.card).list_id = rt.list
        /\ ShownIds(rt.list) = rt.order

\* C5 amended: after a move right immediately followed by a move left, the
\* card the move left took is in the original list, after every card that
\* stayed there.  When the cards of both lists were dense it is the card
\* that was moved right, now the last card: the other cards keep their order
\* and close the gap it left.
C5_RoundTripAppends ==
    (rt.phase = "back") =>
        /\ LET back == Row(project_card, rt.back)
           IN  /\ back.list_id = rt.list
               /\ \A c \in CardsOf(project_card, rt.list) :
                    c.id # back.id => c.position < back.position
        /\ rt.dense =>
             LET card == Row(rt.before, rt.card)
             IN  /\ rt.back = rt.card
                 /\ CardsOf(project_card, rt.list) =
                      decrement_positions_after(rt.before \ {card}, card.position)
                      \cup {[card EXCEPT !.position = Cardinality(rt.before) - 1]}
                 /\ ~panicked =>
                      ShownIds(rt.list) =
                        SelectSeq(rt.order, LAMBDA id : id # rt.card)
                        \o <<rt.card>>

\* a round trip of a card that was not the last card of its list
C5_Witness ==
    /\ rt.phase = "back" /\ rt.dense /\ ~panicked
    /\ rt.order[Len(rt.order)] # rt.card
    /\ ShownIds(rt.list) # rt.order

\* C6: between key events on the board, selected_list_index is below the
\* number of lists when there are lists, and the cursor of every list that
\* has cards is below that list's number of cards.
C6_SelectionInRange ==
    (page = "OpenProject" /\ ~panicked) =>
        /\ Len(data) > 0 => selected_list_index < Len(data)
        /\ \A i \in 1..Len(data) :
             (Len(data[i].cards) > 0 /\ i <= Len(list_selections))
                => list_selections[i] < Len(data[i].cards)

\* a key event removed a row of a table
RowsRemoved ==
    \/ \E r \in project_list : \A q \in project_list' : q.id # r.id
    \/ \E c \in project_card : \A q \in project_card' : q.id # c.id

\* C8: rows are removed only by a 'y' key event that starts in delete mode;
\* delete mode is entered only by a 'd' key event, which removes nothing.
C8_DeleteNeedsConfirmation ==
    [][ /\ RowsRemoved => (mode = "delete" /\ ev'.key = "y")
        /\ (mode # "delete" /\ mode' = "delete")
              => (ev'.key = "d" /\ ~RowsRemoved)
      ]_vars

\* a confirmed delete happened: 'y' in delete mode removed a row
C8_Witness ==
    ev.key = "y" /\ ev.deleted # 0 /\ mode = "normal"

-----------------------------------------------------------------------------
(* Properties of the popups and of the re-fetch *)

\* C3: saving a new list in the list editor, the lists of the project being
\* dense before, leaves the lists of the project with the positions 0..n-1,
\* each once: the new list has the next free position.
C3_NewListKeepsDensity ==
    [][ ("db_new_list" \in ev'.ops
           /\ Dense(ListsOf(project_list, project_id)))
          => Dense(ListsOf(project_list', project_id)) ]_vars

\* the fetched tree holds exactly what the store holds for the open project
TreeMatchesStore ==
    LET rows == ListsOf(project_list, project_id)
    IN  /\ Len(data) = Cardinality(rows)
        /\ {data[i].id : i \in 1..Len(data)} = {r.id : r \in rows}
        /\ \A i, j \in 1..Len(data) :
             i < j => Row(rows, data[i].id).position
                        <= Row(rows, data[j].id).position
        /\ \A i \in 1..Len(data) :
             LET cards  == data[i].cards
                 stored == {c \in project_card : c.list_id = data[i].id
                                                  /\ c.project_id = project_id}
             IN  /\ Len(cards) = Cardinality(stored)
                 /\ \A c \in stored : \E k \in 1..Len(cards) :
                      /\ cards[k].id = c.id
                      /\ cards[k].position = c.position
                      /\ cards[k].completed = c.completed
                      /\ cards[k].important = c.important
                 /\ \A k, m \in 1..Len(cards) :
                      k < m => cards[k].position <= cards[m].position

\* C7: after every board key event that returns without an error, the tree
\* in memory equals the store's content for the open project: its lists in
\* position order, each with its cards in position order and their stored
\* completed and important values.
C7_TreeEqualsStore ==
    (page = "OpenProject" /\ ~panicked) => TreeMatchesStore

\* a toggle wrote the store and the tree shows the new value
C7_Witness ==
    /\ page = "OpenProject" /\ ~panicked
    /\ "db_toggle_card_completed" \in ev.ops
    /\ \E i \in 1..Len(data) : \E k \in 1..Len(data[i].cards) :
         data[i].cards[k].completed

\* a key event opens a popup of the board
PopupOpens == view # "popup" /\ view' = "popup"

-----------------------------------------------------------------------------
(* Properties of the application's popups *)

\* the global popup closes in this step
GlobalPopupCloses == state.popup # "None" /\ state'.popup = "None"

\* the help popup closes in this step
HelpCloses == app.popup # "None" /\ app'.popup = "None"

\* after the step the popup indicators and the popup mode and view agree
PopupIndicatorsAgree ==
    /\ (state'.mode = "Popup") <=> (state'.popup # "None")
    /\ (view' = "popup") <=> (app'.popup # "None")

-----------------------------------------------------------------------------
(* Properties of the key handling while a popup of the board is open *)

\* C11: a key event that starts with a popup of the board open is
\* interpreted by the popup's editor or viewer only: the state after it is
\* one the popup block alone produces for some key, the navigation bindings
\* of the board not being applied to the same key, the key event that closes
\* the popup included.
C11_PopupSuspendsBoard ==
    [][ (page = "OpenProject" /\ view = "popup" /\ ~panicked) =>
          \E key \in BoardKeys :
            \E x \in PopupBlock(St, key) :
              /\ project_list' = x.project_list
              /\ project_card' = x.project_card
              /\ project_id' = x.project_id
              /\ selected_list_index' = x.selected_list_index
              /\ data' = x.data
              /\ popup' = x.popup
              /\ delete_selection' = x.delete_selection
              /\ list_selections' = x.list_selections
              /\ focus' = x.focus
              /\ view' = x.view
              /\ mode' = x.mode
              /\ panicked' = x.panicked ]_vars

-----------------------------------------------------------------------------
(* Properties of the card statuses *)

\* C12: the status character of a rendered card is that of the first of
\* completed, overdue, due soon, in progress, important that holds of the
\* card, in this order, and the default character when none holds; a
\* completed card whose due date is past shows the completed character.
C12_StatusCharByPriority ==
    rendered # <<>> =>
      LET pm    == base_config.modules.project_management
          due   == card_shown.due_date
          start == card_shown.start_date
          past  == due # <<>> /\ due[1] < now
          conds == << card_shown.completed,
                      past,
                      due # <<>> /\ due[1] - due_soon_days < now /\ ~past,
                      start # <<>> /\ start[1] < now /\ ~past,
                      card_shown.important,
                      TRUE >>
          chars == << pm.completed_char, pm.overdue_char, pm.due_soon_char,
                      pm.in_progress_char, pm.important_char, pm.default_char >>
          first == CHOOSE i \in 1..6 : conds[i] /\ \A j \in 1..(i - 1) : ~conds[j]
      IN  /\ rendered[1].status_char = chars[first]
          /\ (card_shown.completed /\ past) =>
                rendered[1].status_char = pm.completed_char

\* a completed card with a past due date has been rendered
C12_Witness ==
    /\ rendered # <<>>
    /\ card_shown.completed
    /\ card_shown.due_date # <<>> /\ card_shown.due_date[1] < now
    /\ rendered[1].status_char = "check mark"

\* C13: of a rendered card, overdue and due soon are never both true, nor
\* overdue and in progress; without a due date the card is neither overdue
\* nor due soon, without a start date it is not in progress; whatever
\* due_soon_days is.
C13_OverdueExcludesOthers ==
    rendered # <<>> =>
      /\ ~(rendered[1].overdue /\ rendered[1].due_soon)
      /\ ~(rendered[1].overdue /\ rendered[1].in_progress)
      /\ card_shown.due_date = <<>> =>
           (~rendered[1].overdue /\ ~rendered[1].due_soon)
      /\ card_shown.start_date = <<>> => ~rendered[1].in_progress

\* a card due two days ago, rendered with due_soon_days = 3: overdue and
\* not due soon
C13_Witness ==
    /\ rendered # <<>>
    /\ card_shown.due_date = <<now - 2>>
    /\ due_soon_days = 3
    /\ rendered[1].overdue /\ ~rendered[1].due_soon

-----------------------------------------------------------------------------
(* Properties of the configuration merge *)

\* C14: in the merged configuration each top-level scalar field (log_level,
\* default_profile) is the user's value for that same field when the user
\* gives one, and the base configuration's value for it otherwise.
C14_ScalarsFromOwnField ==
    (config # <<>> /\ config[1].fatal = "") =>
      /\ config[1].log_level =
           IF user_config.log_level # <<>> THEN user_config.log_level[1]
           ELSE base.log_level
      /\ config[1].default_profile =
           IF user_config.default_profile # <<>> THEN user_config.default_profile
           ELSE base.default_profile

\* the field of a group after the merge: the user's value when the user
\* gives one, the base's otherwise
FieldMerged(merged, given, default) ==
    merged = IF given = <<>> THEN default ELSE given[1]

\* the same for a color field, the user's string read as the color it
\* denotes
ColorMerged(merged, given, default) ==
    merged = IF given = <<>> THEN default
             ELSE IF given = <<"#FFFFFF">> THEN "#ffffff"
             ELSE given[1]

\* the module groups after the merge follow the group rule
ModulesMerged ==
    IF user_config.modules = <<>> THEN config[1].modules = base.modules
    ELSE /\ LET a == user_config.modules[1].home
                b == base.modules.home
            IN  IF a = <<>> THEN config[1].modules.home = b
                ELSE \A f \in DOMAIN b :
                       FieldMerged(config[1].modules.home[f], a[1][f], b[f])
         /\ LET a == user_config.modules[1].project_management
                b == base.modules.project_management
            IN  IF a = <<>> THEN config[1].modules.project_management = b
                ELSE \A f \in DOMAIN b :
                       FieldMerged(config[1].modules.project_management[f],
                                   a[1][f], b[f])

\* C15: a group the user omits (colors, modules, modules.home,
\* modules.project_management) is the base's group unchanged after the
\* merge; of a group the user gives, each field is the user's value when
\* given and the base's otherwise.
C15_GroupsFieldByField ==
    (config # <<>> /\ config[1].fatal = "") =>
      /\ IF user_config.colors = <<>> THEN config[1].colors = base.colors
         ELSE \A f \in DOMAIN base.colors :
                IF f = "preset"
                  THEN FieldMerged(config[1].colors[f],
                                   user_config.colors[1][f], base.colors[f])
                  ELSE ColorMerged(config[1].colors[f],
                                   user_config.colors[1][f], base.colors[f])
      /\ ModulesMerged

\* C15 amended: as C15, except for colors.preset, which is the user's value
\* only when it names a known preset and the base's otherwise; and the
\* merge returns no configuration exactly when a color the user gives is no
\* color or a profile lacks a field.
C15_GroupsFieldByFieldKnownPreset ==
    config # <<>> =>
      /\ config[1].fatal = "" =>
           /\ IF user_config.colors = <<>> THEN config[1].colors = base.colors
              ELSE \A f \in DOMAIN base.colors :
                     IF f = "preset"
                       THEN config[1].colors[f] =
                              IF user_config.colors[1][f] # <<>>
                                 /\ user_config.colors[1][f][1] \in COLOR_PRESETS
                                THEN user_config.colors[1][f][1]
                                ELSE base.colors[f]
                       ELSE ColorMerged(config[1].colors[f],
                                        user_config.colors[1][f], base.colors[f])
           /\ ModulesMerged
      /\ config[1].fatal # "" <=>
           \/ /\ user_config.colors # <<>>
              /\ \E f \in DOMAIN base.colors \ {"preset"} :
                   user_config.colors[1][f] = <<"no color">>
           \/ /\ user_config.profiles # <<>>
              /\ \E i \in 1..Len(user_config.profiles[1]) :
                   \E f \in DOMAIN user_config.profiles[1][i] :
                     user_config.profiles[1][i][f] = <<>>

\* merged: a colors group that sets fg and an unknown preset, the modules
\* group omitted
C15_Witness ==
    /\ config # <<>> /\ config[1].fatal = ""
    /\ user_config.colors # <<>>
    /\ user_config.colors[1].fg = <<"#000000">>
    /\ user_config.colors[1].preset = <<"dark">>
    /\ user_config.modules = <<>> /\ user_config.log_level = <<>>
    /\ config[1].colors.fg = "#000000"
    /\ config[1].colors.preset = "default"
    /\ config[1].colors.bg = base.colors.bg
    /\ config[1].log_level = base.log_level
    /\ config[1].modules = base.modules

\* C16: profiles the user gives replace the base's profiles, the merged
\* list being exactly the user's profiles in their order; a profile lacking
\* name, config_file, db_file or log_file makes the merge fail; without
\* profiles from the user the base's profiles are kept.
C16_ProfilesReplaceOrFail ==
    config # <<>> =>
      IF user_config.profiles = <<>>
        THEN config[1].fatal = "" => config[1].profiles = base.profiles
      ELSE LET a == user_config.profiles[1]
           IN  IF \E i \in 1..Len(a) : \E f \in DOMAIN a[i] : a[i][f] = <<>>
                 THEN config[1].fatal # ""
                 ELSE config[1].fatal = "" =>
                        /\ Len(config[1].profiles) = Len(a)
                        /\ \A i \in 1..Len(a) : \A f \in DOMAIN a[i] :
                             config[1].profiles[i][f] = a[i][f][1]

\* merged: two profiles, the second without a log file
C16_Witness ==
    /\ config # <<>>
    /\ user_config.profiles # <<>>
    /\ Len(user_config.profiles[1]) = 2
    /\ user_config.profiles[1][2].log_file = <<>>
    /\ user_config.colors = <<>>
    /\ config[1].fatal = "profile log file not provided"

-----------------------------------------------------------------------------
(* Properties of the command handler *)

\* C17: after a key event handled while the command input has the focus the
\* options are: none, if the input has more characters than the longest
\* command; the whole command table in its declared order, if the input is
\* empty; otherwise exactly the commands the fuzzy matcher matches against
\* the input (for "proj", project management alone).
C17_OptionsFollowInput ==
    [][ (view = "command" /\ command_handler.focused_pane = "Input"
         /\ hist'.key # "") =>
          LET input   == command_handler'.command
              options == command_handler'.command_options
              matched == { command_data[i] : i \in
                             { i \in 1..Len(command_data) :
                                 FuzzyMatches(input, Letters(command_data[i])) } }
          IN  /\ Len(input) > LongestCommand => options = <<>>
              /\ Len(input) = 0 =>
                   options = <<"dashboard", "help", "project management", "quit">>
              /\ (0 < Len(input) /\ Len(input) <= LongestCommand) =>
                   /\ {options[i] : i \in 1..Len(options)} = matched
                   /\ Len(options) = Cardinality(matched)
              /\ input = <<"p", "r", "o", "j">> =>
                   options = <<"project management">> ]_vars

\* the input has grown past the longest command and no option is left
C17_Witness ==
    /\ view = "command" /\ hist.key = "h"
    /\ Len(command_handler.command) > LongestCommand
    /\ command_handler.focused_pane = "Input"
    /\ command_handler.command_options = <<>>

\* C18: Enter in the command handler performs the side effect of the
\* highlighted command and of no other (dashboard: display reset and module
\* Dashboard; help: popup display and popup Help; project management:
\* display reset and module ProjectManagement; quit: the exit request) and
\* then resets the handler to the empty input, the whole table in declared
\* order and the focus on the input; with no option listed Enter has no
\* side effect and does not reset the handler.
C18_EnterExecutesHighlighted ==
    [][ (view = "command" /\ hist'.key = "Enter") =>
          LET input == command_handler.command
              highlighted ==
                IF command_handler.focused_pane = "Options"
                  THEN IF command_handler.command_options = <<>> THEN {}
                       ELSE {command_handler.command_options[1]}
                ELSE IF Len(input) = 0 THEN {command_data[1]}
                ELSE { command_data[i] : i \in
                         { i \in 1..Len(command_data) :
                             FuzzyMatches(input, Letters(command_data[i])) } }
              Effect(cmd) ==
                CASE cmd = "dashboard" ->
                       /\ view' = "default" /\ mode' = "normal"
                       /\ app' = [app EXCEPT !.module = "Dashboard"]
                  [] cmd = "help" ->
                       /\ view' = "popup" /\ mode' = "normal"
                       /\ app' = [app EXCEPT !.popup = "Help"]
                  [] cmd = "project management" ->
                       /\ view' = "default" /\ mode' = "normal"
                       /\ app' = [app EXCEPT !.module = "ProjectManagement"]
                  [] cmd = "quit" ->
                       /\ view' = view /\ mode' = mode
                       /\ app' = [app EXCEPT !.exit = TRUE]
          IN  IF highlighted = {}
                THEN /\ view' = view /\ mode' = mode /\ app' = app
                     /\ command_handler' = command_handler
                ELSE /\ \E cmd \in highlighted : Effect(cmd)
                     /\ command_handler' =
                          [command |-> <<>>, focused_pane |-> "Input",
                           command_options |->
                             <<"dashboard", "help", "project management", "quit">>,
                           selected_option |-> 0]
      ]_vars

\* Enter has executed project management from the options pane
C18_Witness ==
    /\ hist.key = "Enter"
    /\ app.module = "ProjectManagement"
    /\ view = "default" /\ mode = "normal"
    /\ command_handler.command = <<>>
    /\ command_handler.focused_pane = "Input"

-----------------------------------------------------------------------------
(* Properties of the editors *)

\* C19: an editor's key handler returns true in exactly the key events in
\* which a save was committed to the store or the edit was cancelled: the
\* project editor on '[' in normal mode and on Enter with the Actions pane
\* focused, the list editor on an Enter that inserted or updated the list.
\* (A key event in which a statement of the store failed is the case of C21.)
C19_TrueExactlyOnSaveOrCancel ==
    [][ (editor'.key # "" /\ ~editor'.panicked
         /\ ("err" \in DOMAIN editor' => ~editor'.err)) =>
          IF "is_new" \in DOMAIN editor
            THEN editor'.closed <=>
                   (editor'.key = "Enter"
                    /\ editor'.ops \cap {"db_new_list", "db_edit_list"} # {})
            ELSE LET committed ==
                       editor'.ops \cap {"INSERT project", "UPDATE project"} # {}
                     cancelled ==
                       \/ editor'.key = "[" /\ editor.mode = "normal"
                       \/ editor'.key = "Enter" /\ editor.focused_pane = "Actions"
                          /\ editor.action = "Cancel"
                 IN  /\ editor'.ret <=>
                          \/ editor'.key = "[" /\ editor.mode = "normal"
                          \/ editor'.key = "Enter" /\ editor.focused_pane = "Actions"
                     /\ editor'.ret <=> (committed \/ cancelled) ]_vars

\* C20: saving an edit-mode editor whose data was never loaded (the project
\* editor with new = false, the list editor with is_new = false, Enter
\* pressed where it saves) panics, and the key event issues no UPDATE and no
\* INSERT statement.
C20_SaveWithoutDataIsFatal ==
    [][ (editor'.key = "Enter"
         /\ IF "is_new" \in DOMAIN editor
              THEN ~editor.is_new /\ editor.list_data = <<>>
              ELSE ~editor.new /\ editor.data = <<>>
                   /\ editor.mode = "normal" /\ editor.focused_pane = "Actions"
                   /\ editor.action = "Save")
        => (editor'.panicked /\ editor'.ops = {}
            /\ ("is_new" \in DOMAIN editor =>
                  editor'.project_list = editor.project_list)) ]_vars

\* the project editor panicked on Enter on Save, in edit mode without data
C20_Witness ==
    /\ "new" \in DOMAIN editor
    /\ editor.panicked /\ editor.key = "Enter" /\ editor.ops = {}
    /\ ~editor.new /\ editor.data = <<>>

-----------------------------------------------------------------------------
(* Properties of rendering with stored label colors *)

\* C22: whatever the stored color of a label (a color, an empty string, a
\* string that is no color), rendering the card that carries it and the
\* project editor's preview of it completes without a panic, with the
\* parsed color, or a default color where the string cannot be parsed.
C22_InvalidColorNeverCrashes ==
    rendered # <<>> =>
      /\ ~rendered[1].panicked
      /\ \A i \in DOMAIN card_shown.labels :
           LET parsed == get_color(card_shown.labels[i])
           IN  IF parsed # "failed to get color from string"
                 THEN rendered[1].label_fgs[i] = parsed
                      /\ rendered[1].preview_fgs[i] = parsed
                 ELSE rendered[1].label_fgs[i]
                        \in {base_config.colors[f] : f \in DOMAIN BaseColorStrings}
                      /\ rendered[1].preview_fgs[i] = base_config.colors.bg

-----------------------------------------------------------------------------
(* Properties of the board: moves, cursors, delete mode, popup state *)

\* C24: H or L in card focus, with a focused card and a neighbour list on
\* that side, gives the card's row the neighbour's list_id and the position
\* after the neighbour's highest (0 in an empty neighbour), decrements by one
\* exactly the cards of the source list that were after the moved card,
\* selects the neighbour, decrements the source cursor saturating at 0, and
\* leaves the neighbour's cursor on the moved card after the reload.
C24_CrossListMove ==
    [][ (/\ ev'.key \in {"H", "L"}
         /\ page = "OpenProject" /\ view = "default" /\ mode = "normal"
         /\ focus = "Card"
         /\ HasSelection(St) /\ HasSelectedList(St)
         /\ Focused(St) < Len(SelectedList(St).cards)
         /\ IF ev'.key = "H" THEN selected_list_index > 0
                             ELSE selected_list_index + 1 < Len(data))
        =>
        LET to_index == IF ev'.key = "H" THEN selected_list_index - 1
                                         ELSE selected_list_index + 1
            from     == SelectedList(St)
            to       == data[to_index + 1]
            card     == Row(project_card, from.cards[Focused(St) + 1].id)
            there    == CardsOf(project_card, to.id)
            moved    == Row(project_card', card.id)
        IN  /\ ~panicked'
            /\ moved.list_id = to.id
            /\ moved.position = IF there = {} THEN 0
                                ELSE Max({c.position : c \in there}) + 1
            /\ \A c \in project_card : c.id # card.id =>
                 Row(project_card', c.id) =
                   IF c.list_id = from.id /\ c.position > card.position
                     THEN [c EXCEPT !.position = @ - 1] ELSE c
            /\ selected_list_index' = to_index
            /\ list_selections'[selected_list_index + 1] =
                 saturating_sub(Focused(St), 1)
            /\ list_selections'[to_index + 1] < Len(data'[to_index + 1].cards)
            /\ data'[to_index + 1].cards[list_selections'[to_index + 1] + 1].id
                 = card.id ]_vars

\* C25: on the board, which is shown only after a re-fetch of the open
\* project, and after any number of further re-fetches, the number of
\* per-list cursors equals the number of lists of the project.
C25_CursorsParallelToLists ==
    (page = "OpenProject" /\ ~panicked) => Len(list_selections) = Len(data)

\* C26: a list reorder (H or L in list focus) and a confirmed deletion of a
\* list leave every surviving list, identified by its id, with the cursor it
\* had before: the same focused-card index.
C26_ListsKeepTheirCursors ==
    [][ (/\ ev'.ops \cap {"increment_list_position", "decrement_list_position",
                         "db_delete_list"} # {}
         /\ ~panicked')
        =>
        \A i \in 1..Len(data), j \in 1..Len(data') :
           (data[i].id = data'[j].id
            /\ i <= Len(list_selections) /\ j <= Len(list_selections'))
           => list_selections'[j] = list_selections[i] ]_vars

\* C27: the board enters delete mode only on 'd' in normal mode with the
\* default view and a target to delete: in list focus the project id is set
\* and the project has a list, in card focus the selected list has a card.
\* In every other state 'd' leaves the mode and the pending delete selection
\* as they are.
C27_DeleteModeNeedsTarget ==
    (page = "OpenProject" /\ ~panicked) =>
      LET target ==
            /\ view = "default" /\ mode = "normal"
            /\ IF focus = "List" THEN project_id # None /\ Len(data) >= 1
               ELSE HasSelectedList(St) /\ Len(SelectedList(St).cards) >= 1
      IN  /\ \A key \in BoardKeys :
               \A r \in OpenProject_key_event_handler(St, key) :
                  (r.mode = "delete" /\ mode # "delete") => (key = "d" /\ target)
          /\ ~target =>
               \A r \in OpenProject_key_event_handler(St, "d") :
                  r.mode = mode /\ r.delete_selection = delete_selection

\* delete mode has been entered by 'd' on a card
C27_Witness ==
    /\ page = "OpenProject" /\ mode = "delete" /\ ev.key = "d"
    /\ delete_selection = "Card" /\ focus = "Card"

\* C28: 'n' in delete mode deletes nothing from the store, sets the pending
\* delete selection to None, returns the mode to normal, and does not open
\* the new-list popup in the same key event.
C28_CancelDiscardsSelection ==
    (page = "OpenProject" /\ ~panicked /\ mode = "delete") =>
      \A r \in OpenProject_key_event_handler(St, "n") :
         /\ r.project_list = project_list /\ r.project_card = project_card
         /\ r.delete_selection = "None"
         /\ r.mode = "normal"
         /\ r.view = view /\ r.popup = popup

\* C29: the board's popup state is one of None, NewList, EditList, ViewCard,
\* NewCard, EditCard; it names a popup whenever a popup of the board owns
\* the input (the view is popup), and it is None whenever the view is
\* default, also after a popup has been closed.
C29_PopupStateTracksOwnership ==
    (page = "OpenProject" /\ ~panicked) =>
      /\ popup \in {"None", "NewList", "EditList", "ViewCard", "NewCard", "EditCard"}
      /\ view = "popup" => popup # "None"
      /\ view = "default" => popup = "None"

(***************************************************************************)
(* Properties of opening a project from the project list                   *)
(***************************************************************************)

\* C30: the key event that opens a project from the project list (Enter or
\* 'l' on a selected project) ends with the board in its initial state for
\* that project: the first list selected, no popup of the board open, and
\* the mode normal; the opening key is not interpreted as a command of the
\* board as well.
C30_OpeningKeyOnlyOpens ==
    [][(page = "ListProjects" /\ page' = "OpenProject" /\ ~panicked') =>
         /\ selected_list_index' = 0
         /\ popup' = "None"
         /\ view' = "default"
         /\ mode' = "normal"]_vars

(***************************************************************************)
(* Properties of saving in the project editor                              *)
(***************************************************************************)

C23_ValidationGatesTheSave ==
    [][ ("new" \in DOMAIN editor
         /\ editor'.key = "Enter" /\ editor.mode = "normal"
         /\ editor.focused_pane = "Actions" /\ editor.action = "Save"
         /\ \E i \in 1..Len(editor.color_len) :
              editor.color_len[i] \notin {0, LABEL_COLOR_REQUIRED_LENTH})
        => (editor'.ops = {} /\ ~editor'.ret) ]_vars

(***************************************************************************)
(* Properties of the command handler's selection                           *)
(***************************************************************************)

\* C31: every recompute of the options (a key event handled while the input
\* has the focus, and a reset) leaves the selection index 0; in every
\* reachable state the index is a valid index into the options whenever
\* there is an option, so that resolving the highlighted command is never
\* out of range; and every option is an entry of the command table.
C31_SelectionIsValid ==
    /\ [](LET ch == command_handler
          IN  /\ ch.command_options # <<>> =>
                   /\ ch.selected_option < Len(ch.command_options)
                   /\ parse_command(ch) # "panic"
              /\ \A i \in 1..Len(ch.command_options) :
                   \E j \in 1..Len(command_data) :
                     ch.command_options[i] = command_data[j])
    /\ [][ (view = "command" /\ hist'.key # ""
            /\ (command_handler.focused_pane = "Input"
                \/ command_handler'.command # command_handler.command))
           => command_handler'.selected_option = 0 ]_vars

\* the input has filtered the options down to some of the table
C31_Witness ==
    /\ view = "command" /\ command_handler.command # <<>>
    /\ Len(command_handler.command_options) \in 1..(Len(command_data) - 1)
    /\ command_handler.selected_option = 0
    /\ parse_command(command_handler) = command_handler.command_options[1]

(***************************************************************************)
(* Properties of the focus in the project editor                           *)
(***************************************************************************)

Panes == <<"Title", "Description", "Labels", "Actions">>

PaneAfter(pane) ==
    Panes[((CHOOSE i \in 1..Len(Panes) : Panes[i] = pane) % Len(Panes)) + 1]

\* C32: in the project editor in normal mode a forward step goes from Title
\* to Description to Labels to Actions and back to Title; a forward step
\* followed by a backward step, and a backward step followed by a forward
\* step, restore the focused pane, and in the editor that steps through the
\* Add Label slot and the Save and Cancel buttons also the focused action
\* (there a forward step stays in the pane or goes to the next one, and two
\* forward steps leave the pane).
C32_PaneCyclingReverses ==
    IF "new" \in DOMAIN editor
      THEN (editor.mode = "normal" /\ ~editor.panicked) =>
             /\ \A e1 \in ProjectEditor_key_event_handler(editor, "J") :
                  /\ ~e1.panicked
                  /\ e1.focused_pane = PaneAfter(editor.focused_pane)
                  /\ \A e2 \in ProjectEditor_key_event_handler(e1, "K") :
                       ~e2.panicked /\ e2.focused_pane = editor.focused_pane
             /\ \A e1 \in ProjectEditor_key_event_handler(editor, "K") :
                  /\ ~e1.panicked
                  /\ PaneAfter(e1.focused_pane) = editor.focused_pane
                  /\ \A e2 \in ProjectEditor_key_event_handler(e1, "J") :
                       ~e2.panicked /\ e2.focused_pane = editor.focused_pane
      ELSE LET Same(x, y) == /\ x.focused_pane = y.focused_pane
                             /\ x.action = y.action
           IN  /\ next_focus(editor).focused_pane
                    \in {editor.focused_pane, PaneAfter(editor.focused_pane)}
               /\ next_focus(next_focus(editor)).focused_pane
                    \in {PaneAfter(editor.focused_pane),
                         PaneAfter(PaneAfter(editor.focused_pane))}
               /\ Same(prev_focus(next_focus(editor)), editor)
               /\ Same(next_focus(prev_focus(editor)), editor)

\* the editor of the screens module stands on its Cancel button with a label
\* added, and the editor of the crate on its Actions pane with a label
C32_Witness ==
    IF "new" \in DOMAIN editor
      THEN editor.focused_pane = "Actions" /\ editor.labels # <<>>
           /\ editor.key = "J" /\ editor.mode = "normal"
      ELSE editor.focused_pane = "Actions" /\ editor.action = "Cancel"
           /\ editor.labels > 0 /\ editor.key = "j"

\* C33: in the Labels pane of the project editor with N labels, 'j' goes
\* from label 0 to label N-1, then to the Add Label slot, then back to label
\* 0, and 'k' goes the other way round; whenever a label is focused there is
\* one (N >= 1 and selected_label < N); and no key event underflows or
\* indexes out of range, with N = 0 as well.
C33_LabelCycling ==
    "new" \in DOMAIN editor =>
      LET N == Len(editor.labels)
          at_label == editor.focused_label_option = "Labels"
          Slot(e) == IF e.focused_label_option = "AddLabel" THEN N
                     ELSE e.selected_label
          slot == Slot(editor)
      IN  /\ ~editor.panicked
          /\ (editor.focused_pane = "Labels" /\ at_label) =>
               (N >= 1 /\ editor.selected_label < N)
          /\ (editor.focused_pane = "Labels" /\ editor.mode = "normal"
              /\ ~editor.panicked) =>
               /\ \A e \in ProjectEditor_key_event_handler(editor, "j") :
                    ~e.panicked /\ Slot(e) = (slot + 1) % (N + 1)
               /\ \A e \in ProjectEditor_key_event_handler(editor, "k") :
                    ~e.panicked /\ Slot(e) = (slot + N) % (N + 1)

(***************************************************************************)
(* Properties of the labels the project editor saves                       *)
(***************************************************************************)

\* C34: a save from the project editor that completes inserts every label
\* without an id as a row whose position is the label's index in the
\* editor's list, updates the row of every label with an id in title and
\* color (the row then has the editor's color), and leaves the position of
\* every row stored before the save as it was.
C34_LabelsSavedInPlace ==
    [][ ("new" \in DOMAIN editor /\ editor'.key = "Enter"
         /\ editor'.stmts # <<>> /\ ~editor'.err /\ ~editor'.panicked) =>
          LET before  == StoredLabels
              after   == ApplyStatements(before, editor'.stmts)
              project == editor'.stmts[1].project_id
              labels  == editor.labels
          IN  /\ \A r \in before : \E r2 \in after :
                   /\ r2.id = r.id /\ r2.project_id = r.project_id
                   /\ r2.position = r.position
              /\ \A i \in 1..Len(labels) : labels[i] = <<>> =>
                   \E r \in after : /\ r.id \notin {q.id : q \in before}
                                    /\ r.project_id = project
                                    /\ r.position = i - 1
                                    /\ r.color_len = editor.color_len[i]
              /\ Cardinality(after) - Cardinality(before)
                   = Cardinality({i \in 1..Len(labels) : labels[i] = <<>>})
              /\ \A i \in 1..Len(labels) : labels[i] # <<>> =>
                   \E r \in after : /\ r.id = labels[i][1]
                                    /\ r.position \in {q.position : q \in before}
                                    /\ r.color_len = editor.color_len[i]
      ]_vars

(***************************************************************************)
(* Properties of the board: toggles, pairwise reorder, errors, indexes     *)
(***************************************************************************)

Swapped(before, after, a, b) ==
    after = { IF r.id = a THEN [r EXCEPT !.position = Row(before, b).position]
              ELSE IF r.id = b THEN [r EXCEPT !.position = Row(before, a).position]
              ELSE r : r \in before }

\* C36: H and L in list focus, and K and J in card focus among the cards of
\* the selected list, exchange the position of the selected item with that
\* of its neighbour on that side and leave every other row as it is; after
\* the reload the same item is selected; at the first (H, K) or last (L, J)
\* item the key changes neither the store nor the selection; and a step
\* followed by the opposite step restores the order and the selection.
C36_PairwiseReorder ==
    (page = "OpenProject" /\ ~panicked /\ view = "default" /\ mode = "normal"
     /\ selected_list_index < Len(data)) =>
      LET lists == focus = "List"
          items == IF lists THEN IdsOf(data)
                   ELSE IdsOf(data[selected_list_index + 1].cards)
          at    == IF lists THEN selected_list_index
                   ELSE list_selections[selected_list_index + 1]
          Items(x) == IF lists THEN IdsOf(x.data)
                      ELSE IdsOf(x.data[x.selected_list_index + 1].cards)
          At(x)    == IF lists THEN x.selected_list_index
                      ELSE x.list_selections[x.selected_list_index + 1]
          Table(x) == IF lists THEN x.project_list ELSE x.project_card
          Other(x) == IF lists THEN x.project_card ELSE x.project_list
          Same(x)  == /\ x.project_list = project_list
                      /\ x.project_card = project_card
                      /\ Items(x) = items /\ At(x) = at
                      /\ x.selected_list_index = selected_list_index
          Again(x) == [x EXCEPT !.ops = {}]
          Step(key, back, to) ==
            \A s2 \in OpenProject_key_event_handler(St, key) :
              /\ ~s2.panicked
              /\ IF to \notin 0..(Len(items) - 1) THEN Same(s2)
                 ELSE /\ Swapped(Table(St), Table(s2), items[at + 1], items[to + 1])
                      /\ Other(s2) = Other(St)
                      /\ At(s2) = to
                      /\ s2.selected_list_index
                           = IF lists THEN to ELSE selected_list_index
                      /\ Items(s2) = [items EXCEPT ![at + 1] = items[to + 1],
                                                   ![to + 1] = items[at + 1]]
                      /\ \A s3 \in OpenProject_key_event_handler(Again(s2), back) :
                           ~s3.panicked /\ Same(s3)
      IN  (at < Len(items)) =>
            IF lists THEN Step("L", "H", at + 1) /\ Step("H", "L", at - 1)
            ELSE Step("J", "K", at + 1) /\ Step("K", "J", at - 1)

\* C37: when a statement that a delete, a reorder, a move or a toggle of the
\* board sends to the store fails, the key handler returns that error, the
\* key event performs no re-fetch, and the selected list index and the
\* cursors of the lists are the ones from before the key event
C37_StoreErrorStopsOperation ==
    page = "OpenProject" /\ ~panicked =>
      \A key \in BoardKeys :
        \A y \in OpenProject_key_event_handler([St EXCEPT !.faulty = TRUE], key) :
          y.err \notin {"", "db_get_project"} =>
            /\ ~y.panicked /\ ~y.ret
            /\ "db_get_project" \notin y.ops
            /\ y.data = data
            /\ y.selected_list_index = selected_list_index
            /\ y.list_selections = list_selections

\* a confirmed delete of the second list fails after the row was deleted
C37_Witness ==
    /\ page = "OpenProject" /\ ~panicked
    /\ mode = "delete" /\ delete_selection = "List" /\ selected_list_index > 0
    /\ \E y \in OpenProject_key_event_handler([St EXCEPT !.faulty = TRUE], "y") :
         /\ y.err = "db_delete_list"
         /\ y.project_list # project_list

\* C38: the key handler of the board never indexes out of range and never
\* takes an unsigned value below zero, whatever the keys and the content of
\* the project; 'J', 'H' and 'L' in card focus on a list without cards change
\* nothing
C38_NoIndexOutOfRange ==
    /\ ~panicked
    /\ (/\ page = "OpenProject" /\ view = "default" /\ mode = "normal"
        /\ focus = "Card" /\ HasSelectedList(St) /\ HasSelection(St)
        /\ Len(SelectedList(St).cards) = 0)
       => \A key \in {"J", "H", "L"} :
            \A y \in OpenProject_key_event_handler(St, key) :
              /\ ~y.panicked
              /\ y.project_card = project_card
              /\ y.project_list = project_list
              /\ y.selected_list_index = selected_list_index
              /\ y.list_selections = list_selections

(***************************************************************************)
(* Properties of the project editor's label list and of the Form widget    *)
(***************************************************************************)

\* C39: the label list of the project editor holds labels of the project in
\* the editor and no others: when a save or a cancel has closed the editor
\* of a new project its label list is empty, and when set_project opens the
\* editor again after a save or a cancel every entry of the label list is a
\* stored label of the project it has loaded
C39_NoLabelLeftOver ==
    [][ "new" \in DOMAIN editor' =>
          /\ (editor'.new /\ editor'.ret) => editor'.labels = <<>>
          /\ (~editor'.new /\ editor.ret /\ editor'.key = "") =>
                \A i \in 1..Len(editor'.labels) :
                   /\ editor'.labels[i] # <<>>
                   /\ \E r \in StoredLabels :
                        /\ r.id = editor'.labels[i][1]
                        /\ r.project_id = editor'.data[1]
      ]_vars

\* C40: in a form with N >= 1 input widgets, after any sequence of
\* focus_first, focus_last, focus_next and focus_prev the index focused_input
\* is one of 0..N-1; focus_next on the last widget and focus_prev on the
\* first leave it as it is; the key handler dispatches to a widget that
\* exists
C40_FocusedInputInRange ==
    ("widgets" \in DOMAIN editor /\ editor.widgets >= 1) =>
      /\ ~editor.panicked
      /\ editor.focused_input \in 0..(editor.widgets - 1)
      /\ (editor.op = "focus_next" /\ editor.before = editor.widgets - 1)
           => editor.focused_input = editor.before
      /\ (editor.op = "focus_next" /\ editor.before < editor.widgets - 1)
           => editor.focused_input = editor.before + 1
      /\ (editor.op = "focus_prev" /\ editor.before = 0)
           => editor.focused_input = editor.before
      /\ (editor.op = "focus_prev" /\ editor.before > 0)
           => editor.focused_input = editor.before - 1
      /\ editor.op = "key_event_handler"
           => editor.dispatched = <<editor.focused_input>>
      /\ \A f \in Form_key_event_handler(editor) :
           ~f.panicked /\ f.dispatched[1] \in 0..(editor.widgets - 1)

\* focus_next was called on the last of several widgets
C40_Witness ==
    /\ "widgets" \in DOMAIN editor /\ editor.widgets >= 2
    /\ editor.op = "focus_next" /\ editor.before = editor.widgets - 1

=============================================================================
